---------------------------- MODULE Spec2Model ----------------------------
(***************************************************************************)
(* A model of the OAM Kubernetes Remote addon: the workload translation    *)
(* pipeline, the trait accessor and modifier, the KubernetesApplication    *)
(* apply engine and the two reconcilers, against an API server that holds  *)
(* one KubernetesApplication per workload.                                  *)
(***************************************************************************)
EXTENDS Integers, Sequences, FiniteSets, TLC

(***************************************************************************)
(* JSON values.  An embedded template (unstructured.Unstructured) is a     *)
(* JSON object; every value carries its type tag, so that values of        *)
(* different types compare as unequal.                                      *)
(***************************************************************************)
Null == [t |-> "null"]
Num(n) == [t |-> "num", n |-> n]
Str(s) == [t |-> "str", s |-> s]
Arr(a) == [t |-> "arr", a |-> a]
Obj(o) == [t |-> "obj", o |-> o]

EmptyObj == Obj([k \in {} |-> Null])

IsNull(v) == v.t = "null"
IsObj(v) == v.t = "obj"
IsArr(v) == v.t = "arr"

Has(v, k) == IsObj(v) /\ k \in DOMAIN v.o

\* v[k] for an object v, null when the key is absent (a Go map lookup).
Field(v, k) == IF Has(v, k) THEN v.o[k] ELSE Null

(***************************************************************************)
(* jsonpatch.MergePatch(doc, patch): RFC 7386.  A null in the patch        *)
(* deletes the key, an object merges into an object key by key, anything   *)
(* else (a scalar, an array) replaces the value whole; a value taken from  *)
(* the patch has its nulls pruned.                                          *)
(***************************************************************************)
RECURSIVE PruneNulls(_)
PruneNulls(v) ==
    CASE IsObj(v) ->
            Obj([k \in {j \in DOMAIN v.o : ~IsNull(v.o[j])} |-> PruneNulls(v.o[k])])
      [] IsArr(v) ->
            LET kept == SelectSeq(v.a, LAMBDA x : ~IsNull(x))
            IN  Arr([i \in 1..Len(kept) |-> PruneNulls(kept[i])])
      [] OTHER -> v

\* A faulty merge that appends the patch's array to the document's instead
\* of replacing it; the array properties are tested against it.
RECURSIVE MergeDocsAppending(_, _)
MergeDocsAppending(doc, patch) ==
    LET deleted == {k \in DOMAIN patch.o : IsNull(patch.o[k])}
        set == (DOMAIN patch.o) \ deleted
        keys == ((DOMAIN doc.o) \ deleted) \cup set
    IN  Obj([k \in keys |->
            IF k \notin set THEN doc.o[k]
            ELSE IF k \notin DOMAIN doc.o THEN PruneNulls(patch.o[k])
            ELSE IF IsArr(doc.o[k]) /\ IsArr(patch.o[k]) THEN Arr(doc.o[k].a \o patch.o[k].a)
            ELSE IF IsObj(doc.o[k]) /\ IsObj(patch.o[k]) THEN MergeDocsAppending(doc.o[k], patch.o[k])
            ELSE PruneNulls(patch.o[k])])

RECURSIVE MergeDocs(_, _)
MergeDocs(doc, patch) ==
    LET deleted == {k \in DOMAIN patch.o : IsNull(patch.o[k])}
        set == (DOMAIN patch.o) \ deleted
        keys == ((DOMAIN doc.o) \ deleted) \cup set
    IN  Obj([k \in keys |->
            IF k \notin set THEN doc.o[k]
            ELSE IF k \notin DOMAIN doc.o \/ IsNull(doc.o[k])
                 THEN PruneNulls(patch.o[k])
            ELSE IF ~IsObj(doc.o[k]) THEN PruneNulls(patch.o[k])
            ELSE IF ~IsObj(patch.o[k]) THEN patch.o[k]
            ELSE MergeDocs(doc.o[k], patch.o[k])])

\* A faulty merge in which a null of the patch leaves the document's value
\* in place; the delete semantics is tested against it.
RECURSIVE MergePatchKeepingNulled(_, _)
MergePatchKeepingNulled(doc, patch) ==
    LET set == {k \in DOMAIN patch.o : ~IsNull(patch.o[k])}
    IN  Obj([k \in (DOMAIN doc.o) \cup set |->
            IF k \notin set THEN doc.o[k]
            ELSE IF k \notin DOMAIN doc.o \/ ~IsObj(doc.o[k]) THEN PruneNulls(patch.o[k])
            ELSE IF ~IsObj(patch.o[k]) THEN patch.o[k]
            ELSE MergePatchKeepingNulled(doc.o[k], patch.o[k])])

\* A faulty merge that takes the patch for the result; the field properties
\* are tested against it.
MergePatchOverwriting(doc, patch) == PruneNulls(patch)

MergePatch(doc, patch) == MergeDocs(doc, patch)

(***************************************************************************)
(* KubernetesApplication (the carrier) and its resource templates.         *)
(* A template is [name, labels, body]; a carrier is [name, namespace,      *)
(* controller, selector, templates].  controller is the UID of the owner   *)
(* reference marked controller, NoController when there is none; labels    *)
(* and selector are functions from label keys to values.                   *)
(***************************************************************************)
labelKey == "workload.oam.crossplane.io"

NoController == ""
NoLabels == [k \in {} |-> ""]
Labels(uid) == [k \in {labelKey} |-> uid]

\* What Get leaves behind when the API server answers NotFound.
NotFound == [notFound |-> TRUE]

errNotKubeApp == "object is not a KubernetesApplication"
errCreateKubeApp == "cannot create KubernetesApplication"
errGetKubeApp == "cannot get KubernetesApplication"
errDiffController == "existing KubernetesApplication has a different (or no) controller"
errMergeKubeAppTemplates == "cannot merge KubernetesApplicationResourceTemplates"
errPatchKubeApp == "cannot patch existing KubernetesApplication"
\* A Go run-time panic (index out of range), not an error value.
panicIndexOutOfRange == "panic: index out of range"

StrOf(v) == IF v.t = "str" THEN v.s ELSE ""

\* Unstructured.GroupVersionKind(): read from the body's apiVersion and kind.
GroupVersionKind(body) ==
    [apiVersion |-> StrOf(Field(body, "apiVersion")), kind |-> StrOf(Field(body, "kind"))]

\* The map key of apply.go's index: template{gvk, name}.
template(t) == [gvk |-> GroupVersionKind(t.body), name |-> t.name]

\* json.Unmarshal into an Unstructured fails when the document has no kind.
UnmarshalFails(doc) == StrOf(Field(doc, "kind")) = ""

\* index[key] after the loop over the desired templates: the last position
\* holding the key (a later template overwrites an earlier entry), 0 if none.
IndexOf(templates, key) ==
    LET at == {i \in 1..Len(templates) : template(templates[i]) = key}
    IN  IF at = {} THEN 0 ELSE CHOOSE i \in at : \A j \in at : j <= i

(***************************************************************************)
(* KubeAppApplyOption (apply.go): each current template whose key is in    *)
(* the index of the desired templates is merge-patched into the desired    *)
(* template at the indexed position.  ApplyOptionFrom(c, d, j) runs the    *)
(* loop over the current templates from position j on.                     *)
(***************************************************************************)
RECURSIVE ApplyOptionFrom(_, _, _)
ApplyOptionFrom(c, d, j) ==
    IF j > Len(c.templates) THEN [err |-> "", desired |-> d]
    ELSE LET t == c.templates[j]
             i == IndexOf(d.templates, template(t))
         IN  IF i = 0 THEN ApplyOptionFrom(c, d, j + 1)
             ELSE LET merged == MergePatch(t.body, d.templates[i].body)
                  IN  IF UnmarshalFails(merged)
                      THEN [err |-> errMergeKubeAppTemplates, desired |-> d]
                      ELSE ApplyOptionFrom(c,
                               [d EXCEPT !.templates[i].body = merged], j + 1)

\* A faulty option that also keeps, after the desired templates, the
\* current templates whose key the index lacks; the frame of the merge is
\* tested against it.
ApplyOptionKeepingCurrent(current, desired) ==
    LET m == ApplyOptionFrom(current, desired, 1)
    IN  [m EXCEPT !.desired.templates =
            @ \o SelectSeq(current.templates,
                           LAMBDA tm : IndexOf(desired.templates, template(tm)) = 0)]

KubeAppApplyOption(current, desired) == ApplyOptionFrom(current, desired, 1)

(***************************************************************************)
(* mergo.Merge(dst, src): fills what dst lacks (or holds as nil) from src, *)
(* object by object; a value dst already holds is kept.                    *)
(***************************************************************************)
RECURSIVE MergoMerge(_, _)
MergoMerge(dst, src) ==
    LET given == {k \in DOMAIN src.o : ~IsNull(src.o[k])}
    IN  Obj([k \in (DOMAIN dst.o) \cup given |->
            IF k \notin given THEN dst.o[k]
            ELSE IF k \notin DOMAIN dst.o \/ IsNull(dst.o[k]) THEN src.o[k]
            ELSE IF IsObj(dst.o[k]) /\ IsObj(src.o[k]) THEN MergoMerge(dst.o[k], src.o[k])
            ELSE dst.o[k]])

(***************************************************************************)
(* The template loop of KubeAppApply: the current template at position i   *)
(* is merged into the desired template at the same position i when their   *)
(* GroupVersionKind and name agree.  desired.Spec.ResourceTemplates[i] is  *)
(* indexed without a length check.                                         *)
(***************************************************************************)
RECURSIVE ApplyLoopFrom(_, _, _)
ApplyLoopFrom(m, desired, i) ==
    IF i > Len(m.templates) THEN [err |-> "", desired |-> desired]
    ELSE IF i > Len(desired.templates)
         THEN [err |-> panicIndexOutOfRange, desired |-> desired]
    ELSE LET temp == m.templates[i]
             d == desired.templates[i]
         IN  IF GroupVersionKind(d.body) # GroupVersionKind(temp.body)
                THEN ApplyLoopFrom(m, desired, i + 1)
             ELSE IF d.name # temp.name THEN ApplyLoopFrom(m, desired, i + 1)
             ELSE ApplyLoopFrom(m,
                      [desired EXCEPT !.templates[i].body = MergoMerge(d.body, temp.body)],
                      i + 1)

KubeAppApplyLoop(m, desired) == ApplyLoopFrom(m, desired, 1)

\* A faulty controller check that lets every pair pass; the controller
\* properties are tested against it.
HaveSameControllerLax(a, b) == TRUE

\* meta.HaveSameController: two objects without a controller do not have
\* the same controller.
HaveSameController(a, b) ==
    IF a.controller = NoController \/ b.controller = NoController THEN FALSE
    ELSE a.controller = b.controller

(***************************************************************************)
(* The applicators.  "KubeAppApply" is the function of that name with its  *)
(* positional template loop; "KubeAppApplyOption" is resource.Apply, which *)
(* has the same steps, run with the options ControllersMustMatch and       *)
(* KubeAppApplyOption in place of the loop.                                *)
(***************************************************************************)
Applicators == {"KubeAppApply", "KubeAppApplyOption"}

MergeTemplates(appl, current, desired) ==
    CASE appl = "KubeAppApply" -> KubeAppApplyLoop(current, desired)
      [] appl = "KubeAppApplyOption" -> KubeAppApplyOption(current, desired)
      [] OTHER -> [err |-> "", desired |-> desired]

\* A faulty apply that patches with what the merge left when the merge
\* failed; the properties of a failed merge are tested against it.
ApplyPlanPatchingAnyway(appl, current, desired, must) ==
    IF current = NotFound
       THEN [op |-> "create", doc |-> desired, err |-> ""]
    ELSE IF must /\ ~HaveSameController(current, desired)
       THEN [op |-> "none", doc |-> desired, err |-> errDiffController]
    ELSE [op |-> "patch", doc |-> MergeTemplates(appl, current, desired).desired, err |-> ""]

\* What an apply does after its Get returned `current`: the write it will
\* issue (op), the document it sends (doc) and the error it returns early.
ApplyPlan(appl, current, desired, must) ==
    IF current = NotFound
       THEN [op |-> "create", doc |-> desired, err |-> ""]
    ELSE IF must /\ ~HaveSameController(current, desired)
       THEN [op |-> "none", doc |-> desired, err |-> errDiffController]
    ELSE LET m == MergeTemplates(appl, current, desired)
         IN  IF m.err # "" THEN [op |-> "none", doc |-> m.desired, err |-> m.err]
             ELSE [op |-> "patch", doc |-> m.desired, err |-> ""]

(***************************************************************************)
(* The API server.  Create stores the object as given and fails when one   *)
(* of that name exists.  Patch applies the document as a JSON merge patch  *)
(* (types.MergePatchType): the resourceTemplates array is replaced whole,  *)
(* the owner references are replaced when the document has any, and the    *)
(* selector's matchLabels are merged key by key.  A document that carries  *)
(* a resourceVersion is rejected when the stored object has moved on.      *)
(***************************************************************************)
MergeLabels(stored, doc) ==
    [k \in (DOMAIN stored) \cup (DOMAIN doc) |-> IF k \in DOMAIN doc THEN doc[k] ELSE stored[k]]

\* A faulty patch that keeps the stored templates whose identity the
\* document lacks; the template-set properties are tested against it.
PatchedKeepingStored(stored, doc) ==
    [stored EXCEPT
        !.controller = IF doc.controller # NoController THEN doc.controller ELSE @,
        !.selector = MergeLabels(@, doc.selector),
        !.templates = doc.templates \o
            SelectSeq(@, LAMBDA s : \A i \in 1..Len(doc.templates) :
                                       template(doc.templates[i]) # template(s))]

\* A faulty patch that appends the document's templates to the stored ones;
\* the repeated reconcile is tested against it.
PatchedAppending(stored, doc) ==
    [stored EXCEPT
        !.controller = IF doc.controller # NoController THEN doc.controller ELSE @,
        !.selector = MergeLabels(@, doc.selector),
        !.templates = @ \o doc.templates]

Patched(stored, doc) ==
    [stored EXCEPT
        !.controller = IF doc.controller # NoController THEN doc.controller ELSE @,
        !.selector = MergeLabels(@, doc.selector),
        !.templates = doc.templates]

\* A faulty store whose Create drops the templates of the document; the
\* creation properties are tested against it.
StoreWriteDroppingTemplates(stored, plan, staleVersion) ==
    CASE plan.op = "create" ->
            IF stored = NotFound THEN [store |-> [plan.doc EXCEPT !.templates = <<>>], err |-> ""]
            ELSE [store |-> stored, err |-> errCreateKubeApp]
      [] plan.op = "patch" ->
            IF stored = NotFound \/ staleVersion
               THEN [store |-> stored, err |-> errPatchKubeApp]
            ELSE [store |-> Patched(stored, plan.doc), err |-> ""]
      [] OTHER -> [store |-> stored, err |-> plan.err]

\* The result of the write of an apply: the store after it and the error.
\* staleVersion: the document carries a resourceVersion the store has passed.
StoreWrite(stored, plan, staleVersion) ==
    CASE plan.op = "create" ->
            IF stored = NotFound THEN [store |-> plan.doc, err |-> ""]
            ELSE [store |-> stored, err |-> errCreateKubeApp]
      [] plan.op = "patch" ->
            IF stored = NotFound \/ staleVersion
               THEN [store |-> stored, err |-> errPatchKubeApp]
            ELSE [store |-> Patched(stored, plan.doc), err |-> ""]
      [] OTHER -> [store |-> stored, err |-> plan.err]


(***************************************************************************)
(* Typed objects and their conversion to and from unstructured JSON        *)
(* (runtime.DefaultUnstructuredConverter).  A Deployment is [kind, name,   *)
(* replicas, selector, podLabels, containers]; replicas is Null when the   *)
(* pointer is nil, and a container is [name, ports].  ToUnstructured emits *)
(* a null for the zero creationTimestamp, for a nil selector and for a nil *)
(* container list, omits an unset replicas, and emits the empty status.    *)
(* FromUnstructured reads the fields the type has and drops the rest.      *)
(***************************************************************************)
deploymentKind == "Deployment"
deploymentAPIVersion == "apps/v1"
serviceKind == "Service"
serviceAPIVersion == "v1"
servicePort == 8080

LabelsToObj(l) == Obj([k \in DOMAIN l |-> Str(l[k])])
LabelsFromObj(v) == IF IsObj(v) THEN [k \in DOMAIN v.o |-> StrOf(v.o[k])] ELSE NoLabels

\* A JSON object from a set of <<key, value>> pairs with distinct keys.
ObjOf(pairs) ==
    Obj([k \in {p[1] : p \in pairs} |-> (CHOOSE p \in pairs : p[1] = k)[2]])

ContainerToUnstructured(c) ==
    ObjOf({<<"name", Str(c.name)>>}
          \cup (IF c.ports = <<>> THEN {}
                ELSE {<<"ports", Arr([i \in 1..Len(c.ports) |->
                                         ObjOf({<<"containerPort", Num(c.ports[i])>>})])>>}))

ContainerFromUnstructured(v) ==
    [name |-> StrOf(Field(v, "name")),
     ports |-> LET ps == Field(v, "ports")
               IN  IF IsArr(ps) THEN [i \in 1..Len(ps.a) |-> Field(ps.a[i], "containerPort").n]
                   ELSE <<>>]

DeploymentToUnstructured(d) ==
    ObjOf({
      <<"apiVersion", Str(deploymentAPIVersion)>>,
      <<"kind", Str(d.kind)>>,
      <<"metadata", ObjOf({<<"name", Str(d.name)>>, <<"creationTimestamp", Null>>})>>,
      <<"spec", ObjOf(
          (IF IsNull(d.replicas) THEN {} ELSE {<<"replicas", d.replicas>>})
          \cup {
            <<"selector", IF d.selector = NoLabels THEN Null
                          ELSE ObjOf({<<"matchLabels", LabelsToObj(d.selector)>>})>>,
            <<"template", ObjOf({
                <<"metadata", ObjOf({<<"creationTimestamp", Null>>}
                                    \cup (IF d.podLabels = NoLabels THEN {}
                                          ELSE {<<"labels", LabelsToObj(d.podLabels)>>}))>>,
                <<"spec", ObjOf({
                    <<"containers", IF d.containers = <<>> THEN Null
                                    ELSE Arr([i \in 1..Len(d.containers) |->
                                                 ContainerToUnstructured(d.containers[i])])>>})>>})>>})>>,
      <<"status", EmptyObj>>})

DeploymentFromUnstructured(u) ==
    LET spec == Field(u, "spec")
        pod == Field(spec, "template")
        cs == Field(Field(pod, "spec"), "containers")
    IN  [kind |-> StrOf(Field(u, "kind")),
         name |-> StrOf(Field(Field(u, "metadata"), "name")),
         replicas |-> IF Field(spec, "replicas").t = "num" THEN Field(spec, "replicas") ELSE Null,
         selector |-> LabelsFromObj(Field(Field(spec, "selector"), "matchLabels")),
         podLabels |-> LabelsFromObj(Field(Field(pod, "metadata"), "labels")),
         containers |-> IF IsArr(cs) THEN [i \in 1..Len(cs.a) |-> ContainerFromUnstructured(cs.a[i])]
                        ELSE <<>>]

\* A Service is [kind, name, labels, selector, targetPort].
ServiceToUnstructured(s) ==
    ObjOf({
      <<"apiVersion", Str(serviceAPIVersion)>>,
      <<"kind", Str(s.kind)>>,
      <<"metadata", ObjOf({<<"name", Str(s.name)>>, <<"creationTimestamp", Null>>,
                           <<"labels", LabelsToObj(s.labels)>>})>>,
      <<"spec", ObjOf({
          <<"ports", Arr(<<ObjOf({<<"name", Str(s.name)>>, <<"port", Num(servicePort)>>,
                                  <<"targetPort", Num(s.targetPort)>>})>>)>>,
          <<"selector", LabelsToObj(s.selector)>>,
          <<"type", Str("LoadBalancer")>>})>>,
      <<"status", ObjOf({<<"loadBalancer", EmptyObj>>})>>})

\* An object held as unstructured.Unstructured rather than as a typed struct:
\* its kind is read from its content.
Unstructured(body) == [kind |-> StrOf(Field(body, "kind")), body |-> body]
IsUnstructured(o) == "body" \in DOMAIN o

\* The converter hands back the content of an Unstructured as it is.
ToUnstructured(o) ==
    IF IsUnstructured(o) THEN o.body
    ELSE IF o.kind = serviceKind THEN ServiceToUnstructured(o)
    ELSE DeploymentToUnstructured(o)

(***************************************************************************)
(* The translation pipeline of a workload [name, namespace, uid,           *)
(* containers].                                                            *)
(***************************************************************************)
\* The translator of a ContainerizedWorkload: one Deployment named after the
\* workload, selecting and labelling its pods by the workload's UID.
ContainerizedWorkloadTranslator(w) ==
    <<[kind |-> deploymentKind, name |-> w.name, replicas |-> Null,
       selector |-> Labels(w.uid), podLabels |-> Labels(w.uid),
       containers |-> w.containers]>>

\* A faulty loop that appends a Service for every container, with or without
\* ports; the properties of Deployments without ports are tested against it.
ServicesForEveryContainer(w, d) ==
    [i \in 1..Len(d.containers) |->
        [kind |-> serviceKind, name |-> d.name, labels |-> Labels(w.uid),
         selector |-> d.selector,
         targetPort |-> IF d.containers[i].ports = <<>> THEN servicePort
                        ELSE d.containers[i].ports[1]]]

\* The Services the loop over d's containers appends: serviceAdded is never
\* set, so the loop goes on to the next container after the first port.
ServicesFor(w, d) ==
    LET ported == SelectSeq(d.containers, LAMBDA c : c.ports # <<>>)
    IN  [i \in 1..Len(ported) |->
            [kind |-> serviceKind, name |-> d.name, labels |-> Labels(w.uid),
             selector |-> d.selector, targetPort |-> ported[i].ports[1]]]

kubeAppKind == "KubernetesApplication"

\* o.GetObjectKind().GroupVersionKind().Kind of an object of the list.
ObjectKind(o) == IF "kind" \in DOMAIN o THEN o.kind ELSE kubeAppKind

RECURSIVE InjectFrom(_, _, _)
InjectFrom(w, objs, i) ==
    IF i > Len(objs) THEN <<>>
    ELSE (IF ObjectKind(objs[i]) = deploymentKind THEN ServicesFor(w, objs[i]) ELSE <<>>)
         \o InjectFrom(w, objs, i + 1)

\* A faulty injector that injects only for a workload that holds no status
\* yet; the properties of repeated translations are tested against it.
ServiceInjectorOnce(w, objs) == IF w.status = "" THEN objs \o InjectFrom(w, objs, 1) ELSE objs

ServiceInjector(w, objs) == objs \o InjectFrom(w, objs, 1)

\* A faulty wrapper that lists the templates in the reverse of the input
\* order; the wrapping properties are tested against it.
KubeAppWrapperReversed(w, objs) ==
    [name |-> w.name, namespace |-> w.namespace, controller |-> NoController,
     selector |-> Labels(w.uid),
     templates |-> [i \in 1..Len(objs) |->
                      [name |-> w.name, labels |-> Labels(w.uid),
                       body |-> ToUnstructured(objs[Len(objs) + 1 - i])]]]

\* KubeAppWrapper of the Translate pipeline: no owner reference is added.
KubeAppWrapper(w, objs) ==
    [name |-> w.name, namespace |-> w.namespace, controller |-> NoController,
     selector |-> Labels(w.uid),
     templates |-> [i \in 1..Len(objs) |->
                      [name |-> w.name, labels |-> Labels(w.uid),
                       body |-> ToUnstructured(objs[i])]]]

\* A faulty wrapper that labels its template with the workload's name in
\* place of its UID; the label properties are tested against it.
PackageKubeAppWrapperMislabelled(w, obj) ==
    [name |-> w.name, namespace |-> w.namespace, controller |-> w.uid,
     selector |-> Labels(w.uid),
     templates |-> <<[name |-> w.name, labels |-> Labels(w.name),
                      body |-> ToUnstructured(obj)]>>]

\* KubeAppWrapper of the Package pipeline: one object, and the workload is
\* added as the controller.
PackageKubeAppWrapper(w, obj) ==
    [name |-> w.name, namespace |-> w.namespace, controller |-> w.uid,
     selector |-> Labels(w.uid),
     templates |-> <<[name |-> w.name, labels |-> Labels(w.uid),
                      body |-> ToUnstructured(obj)]>>]

Pipelines == {"Package", "Translate"}

\* The KubernetesApplication a reconcile of workload w asks to apply.
Translate(pipeline, w) ==
    IF pipeline = "Package"
       THEN PackageKubeAppWrapper(w, ContainerizedWorkloadTranslator(w)[1])
       ELSE KubeAppWrapper(w, ServiceInjector(w, ContainerizedWorkloadTranslator(w)))

(***************************************************************************)
(* The trait side: the ManualScalerTrait modifier and the accessor that    *)
(* finds the Deployment template of the referenced workload.               *)
(***************************************************************************)
errNoDeploymentForTrait == "no deployment found for trait in KubernetesApplication"
\* errNotKubeApp of the accessor's file.
errAccessorNotKubeApp ==
    "object passed to KubernetesApplication accessor is not KubernetesApplication"
errNotManualScalerTrait == "trait is not a manual scaler"
\* The converter's error for a field whose value has the wrong JSON type.
errFromUnstructured == "cannot convert to the type of the field"

manualScalerKind == "ManualScalerTrait"

errNotDeployment == "object to be modified is not a deployment"

\* obj.(*KubernetesApplication) succeeds.
IsKubeApp(obj) == "templates" \in DOMAIN obj

\* obj.(*appsv1.Deployment) succeeds: obj is of the Deployment type, whatever
\* the kind it was decoded from says.
IsDeployment(obj) == "containers" \in DOMAIN obj

\* A faulty modifier that also drops the labels of the pod template; the
\* properties of the modifier are tested against it.
ModifierDroppingLabels(d, trait) ==
    IF ~IsDeployment(d) THEN [err |-> errNotDeployment, obj |-> d]
    ELSE IF trait.kind # manualScalerKind THEN [err |-> errNotManualScalerTrait, obj |-> d]
    ELSE [err |-> "", obj |-> [d EXCEPT !.replicas = Num(trait.replicaCount),
                                        !.podLabels = NoLabels]]

\* The modifier of the ManualScalerTrait: [err, obj], the object after it.
manualScalerModifier(d, trait) ==
    IF ~IsDeployment(d) THEN [err |-> errNotDeployment, obj |-> d]
    ELSE IF trait.kind # manualScalerKind THEN [err |-> errNotManualScalerTrait, obj |-> d]
    ELSE [err |-> "", obj |-> [d EXCEPT !.replicas = Num(trait.replicaCount)]]

\* FromUnstructured fails on a replicas that is not a number.
FromUnstructuredFails(u) ==
    LET r == Field(Field(u, "spec"), "replicas") IN ~IsNull(r) /\ r.t # "num"

\* The one element of a singleton set: Only({e(x) : x \in {v}}) is e(v), with
\* v evaluated once.
Only(S) == CHOOSE x \in S : TRUE

\* A faulty search that accepts a template by its name alone, whatever its
\* kind; the selection properties are tested against it.
AccessedTemplateByName(a, trait) ==
    LET ok == {i \in 1..Len(a.templates) : a.templates[i].name = trait.workloadRef}
    IN  IF ok = {} THEN 0 ELSE CHOOSE i \in ok : \A j \in ok : i <= j

\* The first template the accessor accepts, 0 when there is none.
AccessedTemplate(a, trait) ==
    LET ok == {i \in 1..Len(a.templates) :
                  /\ a.templates[i].name = trait.workloadRef
                  /\ GroupVersionKind(a.templates[i].body).kind = deploymentKind}
    IN  IF ok = {} THEN 0 ELSE CHOOSE i \in ok : \A j \in ok : i <= j

\* A faulty accessor that modifies every template the search accepts, not
\* the first alone; the frame of a trait reconcile is tested against it.
AccessorScalingEveryMatch(a, trait) ==
    IF ~IsKubeApp(a) THEN [err |-> errAccessorNotKubeApp, pack |-> a, invoked |-> FALSE]
    ELSE LET i == AccessedTemplate(a, trait)
             accepted(tm) == /\ tm.name = trait.workloadRef
                             /\ GroupVersionKind(tm.body).kind = deploymentKind
                             /\ ~FromUnstructuredFails(tm.body)
         IN  IF i = 0 THEN [err |-> errNoDeploymentForTrait, pack |-> a, invoked |-> FALSE]
             ELSE IF FromUnstructuredFails(a.templates[i].body)
                  THEN [err |-> errFromUnstructured, pack |-> a, invoked |-> FALSE]
             ELSE LET m == manualScalerModifier(DeploymentFromUnstructured(a.templates[i].body),
                                                trait)
                  IN  IF m.err # "" THEN [err |-> m.err, pack |-> a, invoked |-> TRUE]
                      ELSE [err |-> "", invoked |-> TRUE,
                            pack |-> [a EXCEPT !.templates =
                                [j \in 1..Len(a.templates) |->
                                    IF accepted(a.templates[j])
                                    THEN [a.templates[j] EXCEPT !.body =
                                            DeploymentToUnstructured(manualScalerModifier(
                                                DeploymentFromUnstructured(a.templates[j].body),
                                                trait).obj)]
                                    ELSE a.templates[j]]]]

\* A faulty accessor that writes the template back before it looks at the
\* modifier's error; the error properties are tested against it.
AccessorWritingBack(a, trait) ==
    IF ~IsKubeApp(a) THEN [err |-> errAccessorNotKubeApp, pack |-> a, invoked |-> FALSE]
    ELSE LET i == AccessedTemplate(a, trait)
         IN  IF i = 0 THEN [err |-> errNoDeploymentForTrait, pack |-> a, invoked |-> FALSE]
             ELSE LET m == manualScalerModifier(DeploymentFromUnstructured(a.templates[i].body),
                                                trait)
                  IN  [err |-> m.err, invoked |-> TRUE,
                       pack |-> [a EXCEPT !.templates[i].body = DeploymentToUnstructured(m.obj)]]

\* The accessor with the modifier of the ManualScalerTrait: the error it
\* returns, the object it was given as it is afterwards (it is modified in
\* place) and whether the modifier was invoked.
DeploymentFromKubeAppAccessor(a, trait) ==
    IF ~IsKubeApp(a) THEN [err |-> errAccessorNotKubeApp, pack |-> a, invoked |-> FALSE]
    ELSE Only({
        IF i = 0 THEN [err |-> errNoDeploymentForTrait, pack |-> a, invoked |-> FALSE]
        ELSE IF FromUnstructuredFails(a.templates[i].body)
             THEN [err |-> errFromUnstructured, pack |-> a, invoked |-> FALSE]
        ELSE Only({
            IF m.err # "" THEN [err |-> m.err, pack |-> a, invoked |-> TRUE]
            ELSE [err |-> "", invoked |-> TRUE,
                  pack |-> [a EXCEPT !.templates[i].body = DeploymentToUnstructured(m.obj)]] :
            m \in {manualScalerModifier(DeploymentFromUnstructured(a.templates[i].body),
                                        trait)}}) :
        i \in {AccessedTemplate(a, trait)}})


(***************************************************************************)
(* Bounds and the inputs drawn within them.                                *)
(***************************************************************************)
MaxContainers == 2
MaxReplicas == 2
MaxTemplates == 2

SeqsUpTo(S, n) == UNION {[1..k -> S] : k \in 0..n}

\* Container i of a workload: it declares two ports or none.
Container(i, ported) ==
    [name |-> ToString(i), ports |-> IF ported THEN <<3000 + i, 4000 + i>> ELSE <<>>]

\* Workloads of n containers of which the last p declare ports.
WorkloadSpecs ==
    {[i \in 1..n |-> Container(i, i > n - p)] : n \in 1..MaxContainers, p \in 0..MaxContainers}

Workload(uid, containers) ==
    [name |-> "w", namespace |-> "ns", uid |-> uid, containers |-> containers, status |-> ""]

Trait(n) ==
    [kind |-> manualScalerKind, replicaCount |-> n, workloadRef |-> "w", status |-> ""]

\* spec.replicas of the first Deployment template of KubernetesApplication
\* k, Null when there is none.
StoredReplicas(k) ==
    IF k = NotFound THEN Null
    ELSE LET ds == {i \in 1..Len(k.templates) :
                       GroupVersionKind(k.templates[i].body).kind = deploymentKind}
         IN  IF ds = {} THEN Null
             ELSE Field(Field(k.templates[CHOOSE i \in ds : \A j \in ds : i <= j].body, "spec"),
                        "replicas")

(***************************************************************************)
(* State.  kapp is the KubernetesApplication the API server holds under    *)
(* the workload's name (NotFound when none), wl and tr the workload and    *)
(* the trait it holds.  w and t are the workload and the trait reconciler: *)
(* where the running reconcile stands (pc) and what it holds; call is a    *)
(* direct call of the applicator.  stale tells that the package the trait  *)
(* reconciler holds has a resourceVersion the API server has since passed. *)
(* last records the latest write step of an apply (who called, the write   *)
(* issued, the error returned, the replicas stored before it) and created  *)
(* whether a reconcile of the workload created the KubernetesApplication.  *)
(***************************************************************************)
VARIABLES pipeline, applicator, kapp, wl, tr, w, t, call, stale, last, created

vars == <<pipeline, applicator, kapp, wl, tr, w, t, call, stale, last, created>>

Idle == [pc |-> "idle", desired |-> NotFound, current |-> NotFound, must |-> TRUE, err |-> ""]
NoWrite == [caller |-> "", op |-> "", err |-> "", replicas |-> Null]

\* A KubernetesApplication left under the workload's name by an earlier
\* incarnation of the workload, translated by the same pipeline.
Leftover(pl) == Translate(pl, Workload("uid-old", <<Container(1, TRUE)>>))

Init ==
    /\ pipeline \in Pipelines
    /\ applicator \in Applicators
    /\ kapp \in {NotFound, Leftover(pipeline)}
    /\ wl \in {Workload("uid-w", c) : c \in WorkloadSpecs}
    /\ tr \in {Trait(n) : n \in 1..MaxReplicas}
    /\ w = Idle
    /\ t = Idle
    /\ call = Idle
    /\ stale = FALSE
    /\ last = NoWrite
    /\ created = FALSE

(***************************************************************************)
(* The write of an apply by the caller whose progress is the record c:     *)
(* the Create or Patch (or early return) that follows from what its Get    *)
(* returned.                                                               *)
(***************************************************************************)
ApplyResult(appl, c, staleVersion) ==
    StoreWrite(kapp, ApplyPlan(appl, c.current, c.desired, c.must), staleVersion)

\* The bookkeeping of a write step by caller `who` with result res.
Written(appl, c, who, res) ==
    /\ kapp' = res.store
    /\ last' = [caller |-> who, op |-> ApplyPlan(appl, c.current, c.desired, c.must).op,
                err |-> res.err, replicas |-> StoredReplicas(kapp)]

Condition(err) == IF err = "" THEN "ReconcileSuccess" ELSE "ReconcileError"

(***************************************************************************)
(* The workload reconciler.  A reconcile reads (the workload, then the     *)
(* KubernetesApplication in the apply's Get) in WFetch and writes (the     *)
(* Create or Patch of the apply, then the workload's status) in WApply;    *)
(* reconciles of the trait may run between the two.                        *)
(***************************************************************************)
WFetch ==
    /\ w.pc = "idle"
    /\ w' = [Idle EXCEPT !.pc = "write", !.desired = Translate(pipeline, wl), !.current = kapp]
    /\ UNCHANGED <<pipeline, applicator, kapp, wl, tr, t, call, stale, last, created>>

\* A panic in the apply ends the reconcile before the status is written.
WApply ==
    /\ w.pc = "write"
    /\ \E res \in {ApplyResult(applicator, w, FALSE)} :
           /\ Written(applicator, w, "workload", res)
           /\ stale' = (t.pc = "write" /\ (stale \/ res.store # kapp))
           /\ created' = (created \/ (kapp = NotFound /\ res.err = ""))
           /\ wl' = IF res.err = panicIndexOutOfRange THEN wl
                    ELSE [wl EXCEPT !.status = Condition(res.err)]
    /\ w' = Idle
    /\ UNCHANGED <<pipeline, applicator, tr, t, call>>

(***************************************************************************)
(* The trait reconciler.  Its applicator is the default one, which patches *)
(* with the modified package as it is.  TFetch gets the trait and the      *)
(* package and modifies it; when there is no package, or no Deployment in  *)
(* it, the reconcile ends there with the status written.  TApply is the    *)
(* write of the apply and the status update: after a successful apply the  *)
(* trait's conditions are written back as they were fetched.               *)
(***************************************************************************)
TraitApplicator == "Apply"

TFetch ==
    /\ t.pc = "idle"
    /\ \E m \in {IF kapp = NotFound THEN [err |-> "", pack |-> NotFound]
                   ELSE DeploymentFromKubeAppAccessor(kapp, tr)} :
           IF kapp = NotFound \/ m.err # ""
           THEN /\ tr' = [tr EXCEPT !.status = Condition(m.err)]
                /\ t' = Idle
           ELSE /\ tr' = tr
                /\ t' = [Idle EXCEPT !.pc = "write", !.desired = m.pack, !.current = kapp]
    /\ stale' = FALSE
    /\ UNCHANGED <<pipeline, applicator, kapp, wl, w, call, last, created>>

TApply ==
    /\ t.pc = "write"
    /\ \E res \in {ApplyResult(TraitApplicator, t, stale)} :
           /\ Written(TraitApplicator, t, "trait", res)
           /\ tr' = IF res.err = "" THEN tr ELSE [tr EXCEPT !.status = Condition(res.err)]
    /\ t' = Idle
    /\ stale' = FALSE
    /\ UNCHANGED <<pipeline, applicator, wl, w, call, created>>

(***************************************************************************)
(* The users: between reconciles they edit the workload's containers and   *)
(* the trait's replica count.                                              *)
(***************************************************************************)
EditWorkload ==
    /\ w.pc = "idle"
    /\ \E c \in WorkloadSpecs \ {wl.containers} : wl' = [wl EXCEPT !.containers = c]
    /\ UNCHANGED <<pipeline, applicator, kapp, tr, w, t, call, stale, last, created>>

EditTrait ==
    /\ t.pc = "idle"
    /\ \E n \in (1..MaxReplicas) \ {tr.replicaCount} : tr' = [tr EXCEPT !.replicaCount = n]
    /\ UNCHANGED <<pipeline, applicator, kapp, wl, w, t, call, stale, last, created>>

Next ==
    \/ WFetch
    \/ WApply
    \/ TFetch
    \/ TApply
    \/ EditWorkload
    \/ EditTrait

Spec == Init /\ [][Next]_vars

(***************************************************************************)
(* The applicator called directly: the apply engine on its own.  A call    *)
(* is a Get (CallGet) and the write that follows from it (CallWrite).      *)
(***************************************************************************)
CallGet ==
    /\ call.pc = "get"
    /\ call' = [call EXCEPT !.pc = "write", !.current = kapp]
    /\ UNCHANGED <<pipeline, applicator, kapp, wl, tr, w, t, stale, last, created>>

CallWrite ==
    /\ call.pc = "write"
    /\ LET res == ApplyResult(applicator, call, FALSE)
       IN  /\ Written(applicator, call, "client", res)
           /\ call' = [call EXCEPT !.pc = "done", !.err = res.err]
    /\ UNCHANGED <<pipeline, applicator, wl, tr, w, t, stale, created>>

NextApply ==
    \/ CallGet
    \/ CallWrite

\* The identities templates are drawn from: kind, apiVersion and name.
TemplateIds ==
    {[apiVersion |-> deploymentAPIVersion, kind |-> deploymentKind, name |-> "cool-temp"],
     [apiVersion |-> deploymentAPIVersion, kind |-> deploymentKind, name |-> "nice-temp"],
     [apiVersion |-> serviceAPIVersion, kind |-> serviceKind, name |-> "cool-temp"]}

\* The embedded object of identity id whose spec is the object spec.
BodyFor(id, spec) ==
    ObjOf({<<"apiVersion", Str(id.apiVersion)>>, <<"kind", Str(id.kind)>>,
           <<"metadata", ObjOf({<<"name", Str("cool-name")>>, <<"creationTimestamp", Null>>})>>,
           <<"spec", spec>>})

PortsOf(ps) == Arr([i \in 1..Len(ps) |-> Num(ps[i])])

StoredShapes ==
    {ObjOf({<<"ports", PortsOf(<<80>>)>>}),
     ObjOf({<<"replicas", Num(3)>>, <<"ports", PortsOf(<<80>>)>>})}

DesiredShapes ==
    {ObjOf({<<"ports", PortsOf(<<80>>)>>}),
     ObjOf({<<"ports", PortsOf(<<80, 81>>)>>})}

\* The KubernetesApplication "cool-kapp" with one template per identity in
\* ids, each with the given spec.
KubeApp(controller, ids, spec) ==
    [name |-> "cool-kapp", namespace |-> "ns", controller |-> controller,
     selector |-> NoLabels,
     templates |-> [i \in 1..Len(ids) |->
                      [name |-> ids[i].name, labels |-> NoLabels, body |-> BodyFor(ids[i], spec)]]]

InitCall(stored, desired, must) ==
    /\ pipeline = "Translate"
    /\ kapp \in stored
    /\ call \in {[Idle EXCEPT !.pc = "get", !.desired = d, !.must = m] : d \in desired, m \in must}
    /\ wl = Workload("uid-w", <<Container(1, FALSE)>>)
    /\ tr = Trait(1)
    /\ w = Idle
    /\ t = Idle
    /\ stale = FALSE
    /\ last = NoWrite
    /\ created = FALSE

InitApply ==
    /\ applicator \in Applicators
    /\ InitCall({NotFound} \cup {KubeApp(c, ids, sp) : c \in {NoController, "uid-a", "uid-b"},
                                    ids \in SeqsUpTo(TemplateIds, MaxTemplates),
                                    sp \in StoredShapes},
                {KubeApp(c, ids, sp) : c \in {NoController, "uid-a"},
                                    ids \in SeqsUpTo(TemplateIds, MaxTemplates),
                                    sp \in DesiredShapes},
                BOOLEAN)

SpecApply == InitApply /\ [][NextApply]_vars

(***************************************************************************)
(* The template merge of KubeAppApplyOption on its own: a stored and a     *)
(* desired KubernetesApplication of one template each, of the same         *)
(* identity, whose specs have or lack a replicas count, an array of ports  *)
(* and a selector object, or carry a null for them.                        *)
(***************************************************************************)
ReplicasChoices ==
    {{}, {<<"replicas", Null>>}} \cup {{<<"replicas", Num(n)>>} : n \in 1..MaxReplicas}

PortsChoices == {{}, {<<"ports", PortsOf(<<80>>)>>}, {<<"ports", PortsOf(<<80, 81>>)>>}}

SelectorChoices ==
    {{}, {<<"selector", Null>>},
     {<<"selector", ObjOf({<<"matchLabels", ObjOf({<<"app", Str("a")>>})>>})>>},
     {<<"selector", ObjOf({<<"matchLabels", ObjOf({<<"app", Str("b")>>, <<"tier", Null>>})>>,
                           <<"matchExpressions", PortsOf(<<1>>)>>})>>}}

MergeShapes ==
    {ObjOf(r \cup p \cup sl) : r \in ReplicasChoices, p \in PortsChoices, sl \in SelectorChoices}

MergeCarriers ==
    {KubeApp(NoController, <<CHOOSE id \in TemplateIds :
                                id.kind = deploymentKind /\ id.name = "cool-temp">>, sp) :
        sp \in MergeShapes}

InitMerge ==
    /\ applicator = "KubeAppApplyOption"
    /\ InitCall(MergeCarriers, MergeCarriers, {FALSE})

SpecMerge == InitMerge /\ [][NextApply]_vars

(***************************************************************************)
(* A reconcile of the workload whose translator is built with wrappers     *)
(* (NewObjectTranslatorWithWrappers): the translate function, then the     *)
(* wrappers one after the other, then the apply of what came out and the   *)
(* status update.  A list of objects is a Go slice: nil, or the items it   *)
(* holds (none for an empty, non-nil slice).                               *)
(***************************************************************************)
errInjectService == "unable to inject Service in objects"
\* The error of a translate function that fails.
errBoom == "boom"

NilObjs == [nil |-> TRUE, items |-> <<>>]
Objs(items) == [nil |-> FALSE, items |-> items]

Wrappers == {"NoopWrapper", "ServiceInjector", "KubeAppWrapper"}

\* What wrapper wrap returns for the list objs: the new list and the error.
\* ServiceInjector fails on an object of the Deployment kind that is not a
\* typed Deployment.
Wrap(wrap, wk, objs) ==
    CASE wrap = "ServiceInjector" ->
            IF objs.nil THEN [objs |-> NilObjs, err |-> ""]
            ELSE IF \E i \in 1..Len(objs.items) :
                       /\ ObjectKind(objs.items[i]) = deploymentKind
                       /\ IsUnstructured(objs.items[i])
                 THEN [objs |-> NilObjs, err |-> errInjectService]
            ELSE [objs |-> Objs(ServiceInjector(wk, objs.items)), err |-> ""]
      [] wrap = "KubeAppWrapper" ->
            IF objs.nil THEN [objs |-> NilObjs, err |-> ""]
            ELSE [objs |-> Objs(<<KubeAppWrapper(wk, objs.items)>>), err |-> ""]
      [] OTHER -> [objs |-> objs, err |-> ""]

\* A faulty wrapper loop that goes on to the next wrapper after an error,
\* handing it the list it had; the ordering properties are tested against it.
WrapStepIgnoringErrors(c, wk) ==
    LET i == Len(c.invoked) + 1
        r == Wrap(c.chain[i], wk, c.objs)
    IN  [c EXCEPT !.invoked = Append(@, c.chain[i]),
                  !.before = c.objs,
                  !.objs = IF r.err # "" THEN c.objs ELSE r.objs,
                  !.err = r.err,
                  !.pc = IF i = Len(c.chain) THEN "apply" ELSE "wrap"]

\* One turn of the wrapper loop for the translation in progress c: the next
\* wrapper of the chain is invoked with the list the previous step left; an
\* error ends the translation with (nil, err).
WrapStep(c, wk) ==
    LET i == Len(c.invoked) + 1
        r == Wrap(c.chain[i], wk, c.objs)
    IN  [c EXCEPT !.invoked = Append(@, c.chain[i]),
                  !.before = c.objs,
                  !.objs = IF r.err # "" THEN NilObjs ELSE r.objs,
                  !.err = r.err,
                  !.pc = IF r.err # "" \/ i = Len(c.chain) THEN "apply" ELSE "wrap"]

\* The apply loop of the reconcile over the translated objects, from item i
\* on, against the KubernetesApplication store: it stops at the first error.
\* applied is the number of objects Apply was invoked with.
RECURSIVE ApplyAllFrom(_, _, _, _)
ApplyAllFrom(appl, store, items, i) ==
    IF i > Len(items) THEN [store |-> store, err |-> "", applied |-> Len(items)]
    ELSE LET res == StoreWrite(store, ApplyPlan(appl, store, items[i], TRUE), FALSE)
         IN  IF res.err # "" THEN [store |-> res.store, err |-> res.err, applied |-> i]
             ELSE ApplyAllFrom(appl, res.store, items, i + 1)

\* A faulty translate step that goes on to the wrappers with whatever list
\* the translate function returned, its error dropped.
CallTranslateKeepingObjects ==
    /\ call.pc = "translate"
    /\ call' = [call EXCEPT !.pc = "wrap", !.objs = call.translated.objs]
    /\ UNCHANGED <<pipeline, applicator, kapp, wl, tr, w, t, stale, last, created>>

CallTranslate ==
    /\ call.pc = "translate"
    /\ call' = IF call.translated.err # ""
               THEN [call EXCEPT !.pc = "apply", !.objs = NilObjs, !.err = call.translated.err]
               ELSE [call EXCEPT !.pc = "wrap", !.objs = call.translated.objs]
    /\ UNCHANGED <<pipeline, applicator, kapp, wl, tr, w, t, stale, last, created>>

CallWrap ==
    /\ call.pc = "wrap"
    /\ call' = WrapStep(call, wl)
    /\ UNCHANGED <<pipeline, applicator, kapp, wl, tr, w, t, stale, last, created>>

CallApply ==
    /\ call.pc = "apply"
    /\ LET res == IF call.err # "" THEN [store |-> kapp, err |-> call.err]
                  ELSE ApplyAllFrom(applicator, kapp, call.objs.items, 1)
       IN  /\ kapp' = res.store
           /\ created' = (kapp = NotFound /\ res.store # NotFound)
           /\ wl' = [wl EXCEPT !.status = Condition(res.err)]
    /\ call' = [call EXCEPT !.pc = "done"]
    /\ UNCHANGED <<pipeline, applicator, tr, w, t, stale, last>>

NextTranslate ==
    \/ CallTranslate
    \/ CallWrap
    \/ CallApply

\* The Deployment and the Service of the tests, for workload wk.
deployment(wk, containers) ==
    [kind |-> deploymentKind, name |-> wk.name, replicas |-> Null,
     selector |-> Labels(wk.uid), podLabels |-> Labels(wk.uid), containers |-> containers]

service(wk, target) ==
    [kind |-> serviceKind, name |-> wk.name, labels |-> Labels(wk.uid),
     selector |-> Labels(wk.uid), targetPort |-> target]

\* The objects a translate function returns: Deployments of up to
\* MaxContainers containers, with and without ports, a Deployment held as an
\* Unstructured, and a Service.
TranslatedObjects(wk) ==
    {deployment(wk, c) : c \in WorkloadSpecs \cup {<<>>}}
    \cup {Unstructured(ObjOf({<<"apiVersion", Str(deploymentAPIVersion)>>,
                              <<"kind", Str(deploymentKind)>>,
                              <<"metadata", ObjOf({<<"name", Str(wk.name)>>})>>}))}
    \cup {service(wk, servicePort)}

\* What a translate function returns: a list (nil, empty or not) and no
\* error, or an error with or without a list.
Translations(wk) ==
    {[objs |-> Objs(l), err |-> ""] : l \in SeqsUpTo(TranslatedObjects(wk), MaxTemplates)}
    \cup {[objs |-> NilObjs, err |-> ""], [objs |-> NilObjs, err |-> errBoom],
          [objs |-> Objs(<<deployment(wk, <<>>)>>), err |-> errBoom]}

\* The wrapper chains: up to MaxWrappers wrappers, KubeAppWrapper once.
MaxWrappers == 3

Chains ==
    {c \in SeqsUpTo(Wrappers, MaxWrappers) :
        Cardinality({i \in 1..Len(c) : c[i] = "KubeAppWrapper"}) = 1}

InitTranslate ==
    /\ pipeline = "Translate"
    /\ applicator = "KubeAppApplyOption"
    /\ kapp = NotFound
    /\ wl = Workload("uid-w", <<Container(1, FALSE)>>)
    /\ call \in {[pc |-> "translate", translated |-> tl, chain |-> c, objs |-> NilObjs,
                  before |-> NilObjs, invoked |-> <<>>, err |-> ""] :
                    tl \in Translations(wl), c \in Chains}
    /\ tr = Trait(1)
    /\ w = Idle
    /\ t = Idle
    /\ stale = FALSE
    /\ last = NoWrite
    /\ created = FALSE

SpecTranslate == InitTranslate /\ [][NextTranslate]_vars

(***************************************************************************)
(* Two reconciles of the same workload one after the other: the second     *)
(* translates the workload as the first left it, its status updated, while *)
(* the KubernetesApplication the first applied is stored.  The translate   *)
(* function returns for the same workload spec what it returned before.    *)
(* call.first keeps what the first translation came to and call.run tells  *)
(* which reconcile is running.                                             *)
(***************************************************************************)
CallAgain ==
    /\ call.pc = "done"
    /\ call.run = 1
    /\ call' = [call EXCEPT !.pc = "translate", !.run = 2,
                            !.first = [objs |-> call.objs, err |-> call.err],
                            !.objs = NilObjs, !.before = NilObjs,
                            !.invoked = <<>>, !.err = ""]
    /\ UNCHANGED <<pipeline, applicator, kapp, wl, tr, w, t, stale, last, created>>

NextTwice ==
    \/ CallTranslate
    \/ CallWrap
    \/ CallApply
    \/ CallAgain

\* The translate function of the ContainerizedWorkload controller.  A
\* workload that is not a ContainerizedWorkload (the Go type, told here by the
\* record holding containers or not) yields the error and no objects; a
\* ContainerizedWorkload yields its one Deployment.
errNotContainerizedWorkload == "object is not a containerized workload"

IsContainerizedWorkload(wk) == "containers" \in DOMAIN wk

containerizedWorkloadTranslator(wk) ==
    IF ~IsContainerizedWorkload(wk)
    THEN [objs |-> NilObjs, err |-> errNotContainerizedWorkload]
    ELSE [objs |-> Objs(ContainerizedWorkloadTranslator(wk)), err |-> ""]

\* The workload of another kind the tests pass to the translate function.
FakeWorkload == [name |-> "w", namespace |-> "ns", uid |-> "uid-w", status |-> ""]

TwiceWorkloads == {Workload("uid-w", <<Container(1, FALSE)>>), FakeWorkload}

\* The chains a reconciler is built with: KubeAppWrapper alone, or after or
\* before ServiceInjector.
TwiceChains ==
    {<<"KubeAppWrapper">>, <<"ServiceInjector", "KubeAppWrapper">>,
     <<"KubeAppWrapper", "ServiceInjector">>}

InitTwice ==
    /\ pipeline = "Translate"
    /\ applicator = "KubeAppApplyOption"
    /\ kapp \in {NotFound, Leftover(pipeline)}
    /\ wl \in TwiceWorkloads
    /\ call \in {[pc |-> "translate", translated |-> tl, chain |-> c, objs |-> NilObjs,
                  before |-> NilObjs, invoked |-> <<>>, err |-> "", run |-> 1,
                  first |-> [objs |-> NilObjs, err |-> ""]] :
                    tl \in Translations(wl) \cup {containerizedWorkloadTranslator(wl)},
                    c \in TwiceChains}
    /\ tr = Trait(1)
    /\ w = Idle
    /\ t = Idle
    /\ stale = FALSE
    /\ last = NoWrite
    /\ created = FALSE

SpecTwice == InitTwice /\ [][NextTwice]_vars

(***************************************************************************)
(* The accessor called directly, with the modifier of the ManualScalerTrait, *)
(* on an object that is a KubernetesApplication or is not one, for a trait  *)
(* that is a ManualScalerTrait or is not one.                               *)
(***************************************************************************)
CallModify ==
    /\ call.pc = "modify"
    /\ call' = [call EXCEPT !.pc = "modified",
                            !.result = DeploymentFromKubeAppAccessor(call.obj, tr)]
    /\ UNCHANGED <<pipeline, applicator, kapp, wl, tr, w, t, stale, last, created>>

\* The modifier called directly on an object, as the accessor calls it.
CallModifier ==
    /\ call.pc = "scale"
    /\ call' = [call EXCEPT !.pc = "scaled", !.result = manualScalerModifier(call.obj, tr)]
    /\ UNCHANGED <<pipeline, applicator, kapp, wl, tr, w, t, stale, last, created>>

NextModify ==
    \/ CallModify
    \/ CallModifier

\* The names a trait's workload reference is drawn from, and the kinds of
\* trait: the ManualScalerTrait and the Trait of the tests.
WorkloadRefs == {"cool-temp", "nice-temp"}
TraitKinds == {manualScalerKind, "Trait"}

Traits ==
    {[Trait(n) EXCEPT !.kind = k, !.workloadRef = r] :
        n \in 1..MaxReplicas, k \in TraitKinds, r \in WorkloadRefs}

\* The specs of the templates: those of the stored templates, and one whose
\* replicas is a string.
ModifyShapes == StoredShapes \cup {ObjOf({<<"replicas", Str("3")>>})}

ModifyObjects ==
    {KubeApp("uid-a", ids, sp) : ids \in SeqsUpTo(TemplateIds, MaxTemplates), sp \in ModifyShapes}
    \cup {deployment(Workload("uid-w", <<>>), <<>>)}

\* The objects the modifier is called with: Deployments of any replica
\* count, unset or set, and objects that are no typed Deployment: a Service,
\* a Deployment held as an Unstructured, a KubernetesApplication.
ModifierObjects ==
    {[deployment(Workload("uid-w", <<>>), c) EXCEPT !.replicas = r] :
        c \in WorkloadSpecs \cup {<<>>}, r \in {Null} \cup {Num(n) : n \in 0..MaxReplicas}}
    \cup {service(Workload("uid-w", <<>>), servicePort),
          Unstructured(DeploymentToUnstructured(deployment(Workload("uid-w", <<>>), <<>>))),
          KubeApp("uid-a", <<>>, EmptyObj)}

InitModify ==
    /\ pipeline = "Translate"
    /\ applicator = "KubeAppApplyOption"
    /\ kapp = NotFound
    /\ wl = Workload("uid-w", <<Container(1, FALSE)>>)
    /\ tr \in Traits
    /\ call \in {[pc |-> "modify", obj |-> o,
                  result |-> [err |-> "", pack |-> o, invoked |-> FALSE]] : o \in ModifyObjects}
                \cup {[pc |-> "scale", obj |-> o, result |-> [err |-> "", obj |-> o]] :
                         o \in ModifierObjects}
    /\ w = Idle
    /\ t = Idle
    /\ stale = FALSE
    /\ last = NoWrite
    /\ created = FALSE

SpecModify == InitModify /\ [][NextModify]_vars

(***************************************************************************)
(* The trait reconciler on its own, against a KubernetesApplication named  *)
(* after the referenced workload that wraps any list of translated         *)
(* objects, with or without a Deployment, controlled by the workload or    *)
(* by nobody.                                                              *)
(***************************************************************************)
NextTrait ==
    \/ TFetch
    \/ TApply
    \/ EditTrait

InitTrait ==
    /\ pipeline = "Translate"
    /\ applicator = "KubeAppApplyOption"
    /\ wl = Workload("uid-w", <<Container(1, FALSE)>>)
    /\ kapp \in {NotFound} \cup
                {[KubeAppWrapper(wl, l) EXCEPT !.controller = c] :
                    l \in SeqsUpTo(TranslatedObjects(wl), MaxTemplates),
                    c \in {NoController, wl.uid}}
    /\ tr \in {Trait(n) : n \in 1..MaxReplicas}
    /\ w = Idle
    /\ t = Idle
    /\ call = Idle
    /\ stale = FALSE
    /\ last = NoWrite
    /\ created = FALSE

SpecTrait == InitTrait /\ [][NextTrait]_vars

(***************************************************************************)
(* Whole attempts of the two reconcilers, one after the other, against an  *)
(* API server whose calls may fail.  An attempt is Reconcile from its      *)
(* first Get to its return; what it returns to the scheduler is the        *)
(* result: the delay of the requeue it asks for in seconds (0 for none)    *)
(* and the error ("" for nil).  A status is the condition the object       *)
(* holds: its reason and its message.  The faults of an attempt are the    *)
(* errors its calls run into: get for the first Get, getPackage for the    *)
(* Get of the package when it fails otherwise than with not found, update  *)
(* for the status update; translated is what the translator of the         *)
(* workload returns.  calls lists the stages the attempt went through.     *)
(***************************************************************************)
shortWait == 30
longWait == 60

errNotFound == "not found"

errGetWorkload == "cannot get workload"
errUpdateWorkloadStatus == "cannot update workload status"
errTranslateWorkload == "cannot translate workload"
errApplyWorkloadTranslation == "cannot apply workload translation"

errGetTrait == "cannot get trait"
errUpdateTraitStatus == "cannot update trait status"
errTraitModify == "cannot apply trait modification"
errGetPackage == "cannot get package for workload reference in trait"
errApplyTraitModification == "cannot apply trait modification to workload package"

\* resource.IgnoreNotFound and errors.Wrap: wrapping nil gives nil.
IgnoreNotFound(err) == IF err = errNotFound THEN "" ELSE err
ErrorsWrap(err, message) == IF err = "" THEN "" ELSE message \o ": " \o err

NoCondition == [reason |-> "", message |-> ""]
ReconcileSuccess == [reason |-> "ReconcileSuccess", message |-> ""]
ReconcileError(err) == [reason |-> "ReconcileError", message |-> err]

Result(after, err) == [requeueAfter |-> after, err |-> err]

\* A faulty return of a failed first Get that hides the error and asks for
\* a requeue; the properties of the first Get are tested against it.
FetchFailedRequeued(f, obj, store, message) ==
    [obj |-> obj, store |-> store, calls |-> <<"Get">>, result |-> Result(shortWait, "")]

\* The return of an attempt whose first Get failed with f.get.
FetchFailed(f, obj, store, message) ==
    [obj |-> obj, store |-> store, calls |-> <<"Get">>,
     result |-> Result(0, ErrorsWrap(IgnoreNotFound(f.get), message))]

\* SetConditions, the status update and the return that end an attempt:
\* obj as the API server holds it afterwards, and the result.
\* A faulty status update that is left out when the object already holds
\* the condition; the count of the status updates is tested against it.
StatusUpdateWhenChanged(f, obj, condition, after, message, store, calls) ==
    IF obj.status = condition
    THEN [obj |-> obj, store |-> store, calls |-> calls, result |-> Result(after, "")]
    ELSE [obj |-> IF f.update = "" THEN [obj EXCEPT !.status = condition] ELSE obj,
          store |-> store, calls |-> Append(calls, "StatusUpdate"),
          result |-> Result(after, ErrorsWrap(f.update, message))]

StatusUpdate(f, obj, condition, after, message, store, calls) ==
    [obj |-> IF f.update = "" THEN [obj EXCEPT !.status = condition] ELSE obj,
     store |-> store, calls |-> Append(calls, "StatusUpdate"),
     result |-> Result(after, ErrorsWrap(f.update, message))]

\* A faulty end of a failed attempt of the workload that asks for the long
\* wait; the properties of its failures are tested against it.
WorkloadFailsLongWait(f, wk, store, err, message, calls) ==
    StatusUpdate(f, wk, ReconcileError(ErrorsWrap(err, message)), longWait,
                 errUpdateWorkloadStatus, store, calls)

\* The end of an attempt of the workload that failed with err at the stage
\* whose message is given.
WorkloadFails(f, wk, store, err, message, calls) ==
    StatusUpdate(f, wk, ReconcileError(ErrorsWrap(err, message)), shortWait,
                 errUpdateWorkloadStatus, store, calls)

\* A faulty end of a successful attempt of the workload that asks for the
\* short wait; the properties of its success are tested against it.
WorkloadSucceedsShortWait(f, wk, store, calls) ==
    StatusUpdate(f, wk, ReconcileSuccess, shortWait, errUpdateWorkloadStatus, store, calls)

WorkloadSucceeds(f, wk, store, calls) ==
    StatusUpdate(f, wk, ReconcileSuccess, longWait, errUpdateWorkloadStatus, store, calls)

\* An attempt of the workload reconciler with faults f, for the workload wk
\* and the KubernetesApplication store, applying with appl.
WorkloadAttempt(f, appl, wk, store) ==
    IF f.get # "" THEN FetchFailed(f, wk, store, errGetWorkload)
    ELSE IF f.translated.err # ""
         THEN WorkloadFails(f, wk, store, f.translated.err, errTranslateWorkload,
                            <<"Get", "Translate">>)
    ELSE LET res == ApplyAllFrom(appl, store, f.translated.objs.items, 1)
             calls == <<"Get", "Translate">> \o [k \in 1..res.applied |-> "Apply"]
         IN  IF res.err # ""
             THEN WorkloadFails(f, wk, res.store, res.err, errApplyWorkloadTranslation, calls)
             ELSE WorkloadSucceeds(f, wk, res.store, calls)

\* A faulty wait for the package that reports an error; the properties of
\* the wait are tested against it.
TraitWaitsInError(f, trt, store) ==
    StatusUpdate(f, trt, ReconcileError(ErrorsWrap(errNotFound, errGetPackage)), shortWait,
                 errUpdateTraitStatus, store, <<"Get", "GetPackage">>)

\* The end of an attempt of the trait that found no package.
TraitWaits(f, trt, store) ==
    StatusUpdate(f, trt, ReconcileSuccess, shortWait, errUpdateTraitStatus, store,
                 <<"Get", "GetPackage">>)

\* A faulty end of a failed attempt of the trait whose message lacks the
\* stage; the properties of its failures are tested against it.
TraitFailsUnwrapped(f, trt, store, err, message, calls) ==
    StatusUpdate(f, trt, ReconcileError(err), shortWait, errUpdateTraitStatus, store, calls)

\* The end of an attempt of the trait that failed with err at the stage
\* whose message is given.
TraitFails(f, trt, store, err, message, calls) ==
    StatusUpdate(f, trt, ReconcileError(ErrorsWrap(err, message)), shortWait,
                 errUpdateTraitStatus, store, calls)

\* An attempt of the trait reconciler with faults f, for the trait trt and
\* the KubernetesApplication store.  After a successful apply the conditions
\* are written back as they were fetched.
TraitAttempt(f, trt, store) ==
    IF f.get # "" THEN FetchFailed(f, trt, store, errGetTrait)
    ELSE IF f.getPackage = "" /\ store = NotFound THEN TraitWaits(f, trt, store)
    ELSE IF f.getPackage # ""
         THEN TraitFails(f, trt, store, f.getPackage, errGetPackage, <<"Get", "GetPackage">>)
    ELSE LET m == DeploymentFromKubeAppAccessor(store, trt)
         IN  IF m.err # ""
             THEN TraitFails(f, trt, store, m.err, errTraitModify,
                             <<"Get", "GetPackage", "Modify">>)
             ELSE LET res == StoreWrite(store, ApplyPlan(TraitApplicator, store, m.pack, TRUE),
                                        FALSE)
                      calls == <<"Get", "GetPackage", "Modify", "Apply">>
                  IN  IF res.err # ""
                      THEN TraitFails(f, trt, res.store, res.err, errApplyTraitModification,
                                      calls)
                      ELSE StatusUpdate(f, trt, trt.status, longWait, errUpdateTraitStatus,
                                        res.store, calls)

\* The objects a KubernetesApplication of the workload wk wraps here.
AttemptObjects(wk) ==
    {deployment(wk, <<>>), deployment(wk, wk.containers), service(wk, servicePort)}

\* What the translator of the workload returns: a list of up to MaxTemplates
\* KubernetesApplications, with or without a controller reference, a nil
\* list, or an error.
Carriers(wk) ==
    {[KubeAppWrapper(wk, <<deployment(wk, wk.containers)>>) EXCEPT !.controller = c] :
        c \in {NoController, wk.uid}}
    \cup {[KubeAppWrapper(wk, <<service(wk, servicePort)>>) EXCEPT !.controller = wk.uid]}

AttemptTranslations(wk) ==
    {[objs |-> Objs(l), err |-> ""] : l \in SeqsUpTo(Carriers(wk), MaxTemplates)}
    \cup {[objs |-> NilObjs, err |-> ""], [objs |-> NilObjs, err |-> errBoom],
          [objs |-> NilObjs, err |-> errInjectService]}

NoFaults ==
    [get |-> "", getPackage |-> "", update |-> "", translated |-> [objs |-> NilObjs, err |-> ""]]

WorkloadFaults(wk) ==
    {[NoFaults EXCEPT !.get = e] : e \in {errNotFound, errBoom}}
    \cup {[NoFaults EXCEPT !.translated = tl, !.update = u] :
            tl \in AttemptTranslations(wk), u \in {"", errBoom}}

TraitFaults ==
    {[NoFaults EXCEPT !.get = e] : e \in {errNotFound, errBoom}}
    \cup {[NoFaults EXCEPT !.getPackage = g, !.update = u] :
            g \in {"", errBoom}, u \in {"", errBoom}}

\* The record of an attempt that ended: the object and the
\* KubernetesApplication it found, what it returned and the stages it took.
Attempted(c, obj, o) ==
    [c EXCEPT !.pc = "done", !.before = [status |-> obj.status, store |-> kapp],
              !.result = o.result, !.calls = o.calls]

ReconcileWorkload ==
    /\ call.pc = "workload"
    /\ \E o \in {WorkloadAttempt(call.faults, applicator, wl, kapp)} :
           /\ wl' = o.obj
           /\ kapp' = o.store
           /\ created' = (kapp = NotFound /\ o.store # NotFound)
           /\ call' = Attempted(call, wl, o)
    /\ UNCHANGED <<pipeline, applicator, tr, w, t, stale, last>>

ReconcileTrait ==
    /\ call.pc = "trait"
    /\ \E o \in {TraitAttempt(call.faults, tr, kapp)} :
           /\ tr' = o.obj
           /\ kapp' = o.store
           /\ call' = Attempted(call, tr, o)
    /\ UNCHANGED <<pipeline, applicator, wl, w, t, stale, last, created>>

NextAttempt ==
    \/ ReconcileWorkload
    \/ ReconcileTrait

\* An attempt about to start: of which reconciler, with which faults.
Attempt(who, f) ==
    [pc |-> who, reconciler |-> who, faults |-> f,
     before |-> [status |-> NoCondition, store |-> NotFound],
     result |-> Result(0, ""), calls |-> <<>>]

\* The conditions earlier attempts have left on the workload and the trait.
WorkloadStatuses ==
    {NoCondition, ReconcileSuccess, ReconcileError(ErrorsWrap(errBoom, errTranslateWorkload))}

TraitStatuses ==
    {NoCondition, ReconcileSuccess, ReconcileError(ErrorsWrap(errBoom, errGetPackage))}

\* The KubernetesApplication stored under the workload's name wraps any list
\* of objects and is controlled by the workload, by another or by nobody.
InitAttempt ==
    /\ pipeline = "Translate"
    /\ applicator = "KubeAppApplyOption"
    /\ kapp \in {NotFound} \cup
                {[KubeAppWrapper(Workload("uid-w", <<Container(1, FALSE)>>), l)
                     EXCEPT !.controller = c] :
                    l \in SeqsUpTo(AttemptObjects(Workload("uid-w", <<Container(1, FALSE)>>)),
                                   MaxTemplates),
                    c \in {NoController, "uid-w", "uid-old"}}
    /\ \E n \in 1..MaxReplicas, ws \in WorkloadStatuses, ts \in TraitStatuses :
          /\ wl = [Workload("uid-w", <<Container(1, FALSE)>>) EXCEPT !.status = ws]
          /\ tr = [Trait(n) EXCEPT !.status = ts]
          /\ \/ ts = NoCondition /\ call \in {Attempt("workload", f) : f \in WorkloadFaults(wl)}
             \/ ws = NoCondition /\ call \in {Attempt("trait", f) : f \in TraitFaults}
    /\ w = Idle
    /\ t = Idle
    /\ stale = FALSE
    /\ last = NoWrite
    /\ created = FALSE

SpecAttempt == InitAttempt /\ [][NextAttempt]_vars

(***************************************************************************)
(* The applicator called with a client whose calls may fail: f.get,        *)
(* f.create and f.patch are the errors the client returns for its Get,     *)
(* Create and Patch ("" for a call that goes through to the store).  The   *)
(* result is the store after the call, the error returned, the client     *)
(* calls issued, in order, and the desired object as the call leaves it    *)
(* (doc: the templates are merged in place).                               *)
(***************************************************************************)
ClientFaults == [get : {"", errBoom}, create : {"", errBoom}, patch : {"", errBoom}]

\* c.Get: the client's error, or not found, or the stored object.
ClientGet(f, stored) ==
    IF f.get # "" THEN [obj |-> NotFound, err |-> f.get]
    ELSE IF stored = NotFound THEN [obj |-> NotFound, err |-> errNotFound]
    ELSE [obj |-> stored, err |-> ""]

\* c.Create and c.Patch: the client's error, or the write on the store.
ClientWrite(f, stored, plan) ==
    LET fault == IF plan.op = "create" THEN f.create ELSE f.patch
    IN  IF fault # "" THEN [store |-> stored, err |-> fault]
        ELSE StoreWrite(stored, plan, FALSE)

\* A faulty applicator that creates the object after any failed Get and
\* issues a rejected write once more; the call properties are tested
\* against it.
KubeAppApplyRetrying(f, appl, stored, desired, must) ==
    LET got == ClientGet(f, stored)
        plan == ApplyPlan(appl, got.obj, desired, must)
        res == ClientWrite(f, stored, plan)
    IN  IF plan.op = "none"
        THEN [store |-> stored, err |-> plan.err, calls |-> <<"Get">>, doc |-> plan.doc]
        ELSE [store |-> res.store, err |-> res.err, doc |-> plan.doc,
              calls |-> IF res.err # "" THEN <<"Get", plan.op, plan.op>> ELSE <<"Get", plan.op>>]

KubeAppApply(f, appl, stored, desired, must) ==
    LET got == ClientGet(f, stored)
    IN  IF got.err = errNotFound
        THEN LET res == ClientWrite(f, stored, [op |-> "create", doc |-> desired, err |-> ""])
             IN  [store |-> res.store, err |-> ErrorsWrap(res.err, errCreateKubeApp),
                  calls |-> <<"Get", "create">>, doc |-> desired]
        ELSE IF got.err # ""
        THEN [store |-> stored, err |-> ErrorsWrap(got.err, errGetKubeApp),
              calls |-> <<"Get">>, doc |-> desired]
        ELSE LET plan == ApplyPlan(appl, got.obj, desired, must)
                 res == ClientWrite(f, stored, plan)
             IN  IF plan.op = "none"
                 THEN [store |-> stored, err |-> plan.err, calls |-> <<"Get">>,
                       doc |-> plan.doc]
                 ELSE [store |-> res.store, err |-> ErrorsWrap(res.err, errPatchKubeApp),
                       calls |-> <<"Get", "patch">>, doc |-> plan.doc]

CallKubeAppApply ==
    /\ call.pc = "apply"
    /\ \E res \in {KubeAppApply(call.faults, applicator, kapp, call.desired, call.must)} :
           /\ kapp' = res.store
           /\ created' = (kapp = NotFound /\ res.store # NotFound)
           /\ call' = [call EXCEPT !.pc = "done", !.before = kapp, !.err = res.err,
                                   !.calls = res.calls, !.doc = res.doc]
    /\ UNCHANGED <<pipeline, applicator, wl, tr, w, t, stale, last>>

NextClient == CallKubeAppApply

\* The templates of the calls with a faulty client: the Deployment
\* identities and one whose embedded object has no kind (merging into it
\* fails), in lists of up to MaxTemplates.  The templates of a stored
\* KubernetesApplication carry labels, those of a desired one none.
ClientIds ==
    {id \in TemplateIds : id.kind = deploymentKind}
    \cup {[apiVersion |-> deploymentAPIVersion, kind |-> "", name |-> "cool-temp"]}

ClientCarriers(controllers, shapes, labels) ==
    {[KubeApp(c, ids, sp) EXCEPT
         !.templates = [i \in 1..Len(ids) |-> [@[i] EXCEPT !.labels = labels]]] :
        c \in controllers, ids \in SeqsUpTo(ClientIds, MaxTemplates), sp \in shapes}

InitClient ==
    /\ pipeline = "Translate"
    /\ applicator \in Applicators
    /\ kapp \in {NotFound} \cup ClientCarriers({"uid-a", "uid-b"}, StoredShapes, Labels("uid-b"))
    /\ call \in {[pc |-> "apply", faults |-> f, desired |-> d, must |-> m,
                  before |-> NotFound, err |-> "", calls |-> <<>>, doc |-> NotFound] :
                    f \in ClientFaults,
                    d \in ClientCarriers({"uid-a"}, {ObjOf({<<"ports", PortsOf(<<80, 81>>)>>})},
                                         NoLabels),
                    m \in BOOLEAN}
    /\ wl = Workload("uid-w", <<Container(1, FALSE)>>)
    /\ tr = Trait(1)
    /\ w = Idle
    /\ t = Idle
    /\ stale = FALSE
    /\ last = NoWrite
    /\ created = FALSE

SpecClient == InitClient /\ [][NextClient]_vars

(***************************************************************************)
(* The two reconcilers on a KubernetesApplication that holds up to         *)
(* MaxTemplates templates when they start: reconciles of the workload may  *)
(* run between the fetch and the apply of a reconcile of the trait.        *)
(***************************************************************************)
NextRace ==
    \/ WFetch
    \/ WApply
    \/ TFetch
    \/ TApply

InitRace ==
    /\ pipeline \in Pipelines
    /\ applicator \in Applicators
    /\ wl = Workload("uid-w", <<Container(1, TRUE)>>)
    /\ kapp \in {NotFound} \cup
                {[KubeAppWrapper(wl, l) EXCEPT !.controller = c] :
                    l \in SeqsUpTo(AttemptObjects(wl), MaxTemplates),
                    c \in {NoController, wl.uid}}
    /\ tr \in {Trait(n) : n \in 1..MaxReplicas}
    /\ w = Idle
    /\ t = Idle
    /\ call = Idle
    /\ stale = FALSE
    /\ last = NoWrite
    /\ created = FALSE

SpecRace == InitRace /\ [][NextRace]_vars

(***************************************************************************)
(* A workload and a trait that nobody edits any more, under the two        *)
(* reconcilers.  Every attempt of a reconciler ends with a requeue (after  *)
(* shortWait or longWait), so a reconciler that can take its next step     *)
(* takes it in the end: the fetch steps are weakly fair, and so are the    *)
(* returns of the two reconcilers, the steps WApply and TApply, which are  *)
(* the only steps that take w and t from "write" back to idle and are      *)
(* enabled whenever w and t are at "write".                                *)
(***************************************************************************)
WReturns == w.pc = "write" /\ w' = Idle
TReturns == t.pc = "write" /\ t' = Idle

Fairness ==
    /\ WF_vars(WFetch)
    /\ WF_w(WReturns)
    /\ WF_vars(TFetch)
    /\ WF_t(TReturns)

\* No KubernetesApplication is stored when the two reconcilers start.
InitLive == Init /\ kapp = NotFound

SpecLive == InitLive /\ [][NextRace]_vars /\ Fairness


(***************************************************************************)
(* Properties of the template merge, under SpecMerge.  After a patch the   *)
(* merged body is the body of the stored template; the stored body is the  *)
(* one the Get returned and the desired body the one the call was given.   *)
(***************************************************************************)
Done == call.pc = "done"
PatchedOk == Done /\ last.op = "patch" /\ last.err = ""

MergedSpec == kapp.templates[1].body
StoredSpec == call.current.templates[1].body
DesiredSpec == call.desired.templates[1].body

\* m holds every non-array field that only s has, with s's value, and every
\* field of d with d's value, object by object.  A field d holds as null is
\* absent from m when nullsDelete, and held as null by m otherwise.
RECURSIVE Contains(_, _, _, _)
Contains(m, s, d, nullsDelete) ==
    /\ \A k \in (DOMAIN s.o) \ (DOMAIN d.o) :
          ~IsArr(s.o[k]) => Has(m, k) /\ m.o[k] = s.o[k]
    /\ \A k \in DOMAIN d.o :
          IF IsNull(d.o[k]) THEN (IF nullsDelete THEN ~Has(m, k) ELSE Has(m, k) /\ IsNull(m.o[k]))
          ELSE /\ Has(m, k)
               /\ IF IsObj(d.o[k])
                  THEN Contains(m.o[k], IF Has(s, k) /\ IsObj(s.o[k]) THEN s.o[k] ELSE EmptyObj,
                                d.o[k], nullsDelete)
                  ELSE m.o[k] = d.o[k]

\* C2 as stated: the merged body contains every non-array field present only
\* in the stored body, with the stored value, and every field the desired
\* body sets explicitly (a null included), with the desired value.
C2_FieldsAsStated == PatchedOk => Contains(MergedSpec, StoredSpec, DesiredSpec, FALSE)

\* C2: the merged body contains every non-array field whose key only the
\* stored body has, with the stored value, and every field the desired body
\* sets to a non-null value, with the desired value, object by object; a key
\* the desired body holds as null is absent from the merged body.
C2_FieldsMerged == PatchedOk => Contains(MergedSpec, StoredSpec, DesiredSpec, TRUE)

\* A merge in which the stored spec alone has a replica count, both have a
\* selector with different labels, and the desired spec has nulls.
C2_Witness ==
    /\ PatchedOk
    /\ Field(Field(StoredSpec, "spec"), "replicas") = Num(MaxReplicas)
    /\ ~Has(Field(DesiredSpec, "spec"), "replicas")
    /\ IsObj(Field(Field(StoredSpec, "spec"), "selector"))
    /\ IsObj(Field(Field(DesiredSpec, "spec"), "selector"))
    /\ Field(Field(StoredSpec, "spec"), "selector") # Field(Field(DesiredSpec, "spec"), "selector")
    /\ Field(Field(MergedSpec, "spec"), "replicas") = Num(MaxReplicas)

\* Every field that holds an array in d holds exactly that array in m.
RECURSIVE ArraysFromDesired(_, _)
ArraysFromDesired(m, d) ==
    \A k \in DOMAIN d.o :
        /\ IsArr(d.o[k]) => Has(m, k) /\ m.o[k] = d.o[k]
        /\ IsObj(d.o[k]) => Has(m, k) /\ ArraysFromDesired(m.o[k], d.o[k])

\* An array of s under a key d does not have is held by m.
RECURSIVE StoredOnlyArraysKept(_, _, _)
StoredOnlyArraysKept(m, s, d) ==
    \A k \in DOMAIN s.o :
        /\ IsArr(s.o[k]) /\ ~Has(d, k) => Has(m, k) /\ m.o[k] = s.o[k]
        /\ IsObj(s.o[k]) /\ Has(d, k) /\ IsObj(d.o[k]) =>
              Has(m, k) /\ StoredOnlyArraysKept(m.o[k], s.o[k], d.o[k])

\* Every field that holds an array in m holds the same array in d.
RECURSIVE ArraysOnlyFromDesired(_, _)
ArraysOnlyFromDesired(m, d) ==
    \A k \in DOMAIN m.o :
        /\ IsArr(m.o[k]) => Has(d, k) /\ d.o[k] = m.o[k]
        /\ IsObj(m.o[k]) =>
              ArraysOnlyFromDesired(m.o[k], IF Has(d, k) /\ IsObj(d.o[k]) THEN d.o[k] ELSE EmptyObj)

\* C3 as stated: every array-valued field of the merged body equals the
\* desired body's array exactly; no array of the stored body is kept.
C3_ArraysAsStated == PatchedOk => ArraysOnlyFromDesired(MergedSpec, DesiredSpec)

\* C3: every field for which the desired body holds an array holds exactly
\* that array in the merged body (nothing of the stored array under that key
\* is kept or unioned in), and an array of the stored body under a key the
\* desired body does not have is kept as it is.
C3_ArraysReplaced ==
    PatchedOk => /\ ArraysFromDesired(MergedSpec, DesiredSpec)
                 /\ StoredOnlyArraysKept(MergedSpec, StoredSpec, DesiredSpec)

\* A merge of stored ports [80] with desired ports [80, 81].
C3_Witness ==
    /\ PatchedOk
    /\ Field(Field(StoredSpec, "spec"), "ports") = PortsOf(<<80>>)
    /\ Field(Field(DesiredSpec, "spec"), "ports") = PortsOf(<<80, 81>>)
    /\ Field(Field(MergedSpec, "spec"), "ports") = PortsOf(<<80, 81>>)

(***************************************************************************)
(* Properties of the apply engine, under SpecApply.                        *)
(***************************************************************************)
Identities(ts) == [i \in 1..Len(ts) |-> template(ts[i])]

DistinctIdentities(ts) ==
    \A i, j \in 1..Len(ts) : i # j => template(ts[i]) # template(ts[j])

\* The call found a KubernetesApplication and passed the controller check.
ReachedMerge ==
    /\ Done
    /\ call.current # NotFound
    /\ call.must => HaveSameController(call.current, call.desired)

\* C4: whichever applicator runs and whatever the lengths of the two template
\* lists (the stored one longer than the desired one, either one empty), a
\* stored template is merged into the desired template of the same identity
\* and into no other: the apply reaches its patch, a replica count that only
\* the stored template has is in the patched template of its identity, and a
\* desired template whose identity is not stored is patched in as it is.
C4_PairedByIdentity ==
    (/\ ReachedMerge
     /\ DistinctIdentities(call.current.templates)
     /\ DistinctIdentities(call.desired.templates))
    => /\ PatchedOk
       /\ \A i \in 1..Len(call.desired.templates) :
             LET d == call.desired.templates[i]
                 from == {j \in 1..Len(call.current.templates) :
                             template(call.current.templates[j]) = template(d)}
             IN  /\ from = {} => kapp.templates[i].body = d.body
                 /\ \A j \in from :
                       Has(Field(call.current.templates[j].body, "spec"), "replicas")
                       => Field(Field(kapp.templates[i].body, "spec"), "replicas")
                          = Field(Field(call.current.templates[j].body, "spec"), "replicas")

\* C5: after a successful apply onto an existing KubernetesApplication the
\* stored template list has exactly the identities of the desired list, in
\* the desired order; a template only the store had is gone.
C5_DesiredDefinesTemplates ==
    PatchedOk => Identities(kapp.templates) = Identities(call.desired.templates)

\* A successful patch where the store had a template whose identity the
\* desired list lacks, and the desired list is not empty.
C5_Witness ==
    /\ PatchedOk
    /\ call.desired.templates # <<>>
    /\ \E j \in 1..Len(call.current.templates) :
          \A i \in 1..Len(call.desired.templates) :
              template(call.current.templates[j]) # template(call.desired.templates[i])
    /\ Len(kapp.templates) = Len(call.desired.templates)

\* C6: when the controllers must match and the stored KubernetesApplication's
\* controller differs from the desired one's, the apply returns the
\* controller error, issues neither Create nor Patch, and leaves the stored
\* KubernetesApplication as it was.
C6_ControllerConflict ==
    (/\ Done
     /\ call.must
     /\ call.current # NotFound
     /\ call.current.controller # call.desired.controller)
    => /\ call.err = errDiffController
       /\ last.op = "none"
       /\ kapp = call.current

\* A refused apply between two different controllers, with templates on
\* both sides.
C6_Witness ==
    /\ Done
    /\ call.must
    /\ call.current # NotFound
    /\ call.current.controller = "uid-b"
    /\ call.desired.controller = "uid-a"
    /\ call.current.templates # <<>>
    /\ call.desired.templates # call.current.templates
    /\ call.err = errDiffController

\* C7: when no KubernetesApplication is stored the apply creates the desired
\* one verbatim, with no merge and no Patch; it is what the store holds
\* afterwards.
C7_CreatedVerbatim ==
    (Done /\ call.current = NotFound)
    => /\ last.op = "create"
       /\ call.err = ""
       /\ kapp = call.desired

\* A creation of a KubernetesApplication with as many templates as allowed.
C7_Witness ==
    /\ Done
    /\ call.current = NotFound
    /\ last.op = "create"
    /\ Len(call.desired.templates) = MaxTemplates
    /\ kapp = call.desired


(***************************************************************************)
(* Properties of the two reconcilers running against one API server,       *)
(* under Spec.                                                             *)
(***************************************************************************)
\* C1: in every interleaving of workload and trait reconciles, a successful
\* patch by a workload reconcile (whose translated Deployment never has a
\* replica count) onto a KubernetesApplication in which a trait reconcile
\* stored the replica count N leaves the stored count at N.
C1_ReplicasSurvive ==
    (/\ last.caller = "workload"
     /\ last.op = "patch"
     /\ last.err = ""
     /\ last.replicas.t = "num")
    => StoredReplicas(kapp) = last.replicas

\* C8: once a reconcile of the workload has created the KubernetesApplication,
\* no later apply of a reconcile of that workload is refused by the
\* controller check.
C8_NoConflictAfterCreate ==
    created => ~(last.caller = "workload" /\ last.err = errDiffController)

\* C9: the KubernetesApplication a workload reconcile is about to apply, and
\* the one stored, have templates of pairwise distinct identities, also when
\* several containers of the workload declare ports.
C9_DistinctIdentities ==
    /\ w.pc = "write" => DistinctIdentities(w.desired.templates)
    /\ kapp # NotFound => DistinctIdentities(kapp.templates)

\* C10: in every reachable state each template of the stored
\* KubernetesApplication carries exactly the labels its resource selector
\* matches, the workload label with the UID; creations, merges and trait
\* modifications keep it so.
C10_LabelsMatchSelector ==
    kapp # NotFound =>
        /\ DOMAIN kapp.selector = {labelKey}
        /\ \A i \in 1..Len(kapp.templates) : kapp.templates[i].labels = kapp.selector

\* A KubernetesApplication created by a workload reconcile, modified by a
\* trait reconcile and then merged into by a later workload reconcile.
C10_Witness ==
    /\ created
    /\ last.caller = "workload"
    /\ last.op = "patch"
    /\ last.err = ""
    /\ StoredReplicas(kapp) = Num(MaxReplicas)
    /\ kapp.templates # <<>>

\* C11: the KubernetesApplication a workload reconcile gets from the wrapper
\* names the workload as its controller: the owner reference marked
\* controller carries the workload's UID.
C11_ControlledByWorkload ==
    w.pc = "write" => w.desired.controller = wl.uid


(***************************************************************************)
(* Properties of the translator with wrappers, under SpecTranslate.  After *)
(* a turn of the wrapper loop, call.before is the list the wrapper invoked *)
(* last was given and call.objs the list it returned.                      *)
(***************************************************************************)
LastWrapper == IF call.invoked = <<>> THEN "" ELSE call.invoked[Len(call.invoked)]

C13_NothingFromNothing ==
    (call.pc = "done" /\ call.translated.err = "" /\ call.translated.objs.items = <<>>) =>
        /\ call.objs = NilObjs
        /\ call.err = ""
        /\ kapp = NotFound
        /\ ~created

\* The wrappers invoked so far are the first ones of the chain, in its order;
\* a translation that has ended has failed with the error of the translate
\* function and no wrapper invoked, or failed with the error of the wrapper
\* invoked last, or invoked the whole chain; a failure leaves the nil list.
TranslationInOrder ==
    /\ Len(call.invoked) <= Len(call.chain)
    /\ call.invoked = SubSeq(call.chain, 1, Len(call.invoked))
    /\ call.pc \in {"apply", "done"} =>
          IF call.translated.err # ""
             THEN call.invoked = <<>> /\ call.objs = NilObjs /\ call.err = call.translated.err
          ELSE IF call.err # ""
             THEN /\ call.objs = NilObjs
                  /\ call.err = Wrap(LastWrapper, wl, call.before).err
          ELSE call.invoked = call.chain

\* A step that invokes a wrapper invokes the next one of the chain, after no
\* error, and hands it the list the previous step left (the list of the
\* translate function for the first wrapper).
WrapperInvokedInTurn ==
    call'.invoked # call.invoked =>
        /\ call.err = ""
        /\ call'.invoked = Append(call.invoked, call.chain[Len(call.invoked) + 1])
        /\ call'.before = call.objs
        /\ call.invoked = <<>> => call.objs = call.translated.objs
        /\ call'.err = "" => call'.objs = Wrap(LastWrapper', wl, call.objs).objs

\* C14: the translator built with wrappers runs the translate function, then
\* the wrappers in the configured order, each on the output of the step
\* before it; after an error of the translate function or of a wrapper no
\* further wrapper is invoked and the result is the nil list and that error.
C14_WrappersInOrder == []TranslationInOrder /\ [][WrapperInvokedInTurn]_vars

\* ServiceInjector, second of three wrappers, has failed on a Deployment held
\* as an Unstructured: the translation has ended with (nil, its error) and
\* KubeAppWrapper was not invoked.
C14_Witness ==
    /\ call.pc = "apply"
    /\ call.chain = <<"NoopWrapper", "ServiceInjector", "KubeAppWrapper">>
    /\ call.invoked = <<"NoopWrapper", "ServiceInjector">>
    /\ call.err = errInjectService
    /\ call.objs = NilObjs
    /\ call.before.items # <<>>

\* The Deployments of a list that have a container declaring a port, in the
\* order of the list, and the first port of the first such container.
IsPorted(o) ==
    /\ ObjectKind(o) = deploymentKind
    /\ ~IsUnstructured(o)
    /\ \E j \in 1..Len(o.containers) : o.containers[j].ports # <<>>

PortedUnits(items) == SelectSeq(items, IsPorted)

FirstPort(d) == SelectSeq(d.containers, LAMBDA c : c.ports # <<>>)[1].ports[1]

\* ServiceInjector has returned without error for a list that is not nil.
Injected == LastWrapper = "ServiceInjector" /\ ~call.before.nil /\ call.err = ""

\* What ServiceInjector appended to the list it was given.
InjectedObjects == SubSeq(call.objs.items, Len(call.before.items) + 1, Len(call.objs.items))

\* C15: ServiceInjector keeps the list it was given and appends one Service
\* for each Deployment of the list that has a container declaring a port,
\* whatever the number of its containers and ports; the Service targets the
\* first port of the first container of that Deployment that declares ports.
C15_OneServicePerUnit ==
    Injected =>
        LET units == PortedUnits(call.before.items)
        IN  /\ SubSeq(call.objs.items, 1, Len(call.before.items)) = call.before.items
            /\ Len(InjectedObjects) = Len(units)
            /\ \A k \in 1..Len(units) :
                  /\ InjectedObjects[k].kind = serviceKind
                  /\ InjectedObjects[k].targetPort = FirstPort(units[k])

\* C16: for a list with two Deployments that both have a container declaring
\* a port, ServiceInjector appends one Service in all, targeting the first
\* port of the first of the two.
C16_OneServiceInAll ==
    (Injected /\ Len(PortedUnits(call.before.items)) = 2) =>
        /\ Len(InjectedObjects) = 1
        /\ InjectedObjects[1].targetPort = FirstPort(PortedUnits(call.before.items)[1])

\* Every object of the Deployment kind in the list is a typed Deployment.
TypedDeployments(items) ==
    \A k \in 1..Len(items) :
        ObjectKind(items[k]) = deploymentKind => ~IsUnstructured(items[k])

\* C17: given a list in which no Deployment has a container declaring a
\* port, ServiceInjector returns the list as it was given, without error:
\* a Deployment without ports gets no Service.
C17_NoPortNoService ==
    (/\ LastWrapper = "ServiceInjector"
     /\ TypedDeployments(call.before.items)
     /\ PortedUnits(call.before.items) = <<>>)
    => call.err = "" /\ call.objs = call.before

\* ServiceInjector has returned the list it was given, in which there is a
\* Deployment of MaxContainers containers, none declaring a port.
C17_Witness ==
    /\ Injected
    /\ call.objs = call.before
    /\ \E k \in 1..Len(call.before.items) :
          /\ call.before.items[k].kind = deploymentKind
          /\ ~IsUnstructured(call.before.items[k])
          /\ Len(call.before.items[k].containers) = MaxContainers


(***************************************************************************)
(* Properties of the accessor, under SpecModify.  call.obj is the object   *)
(* the accessor was given and call.result what it returned and left.       *)
(***************************************************************************)
Modified == call.pc = "modified"

\* The templates of a named ref whose embedded object is of the Deployment
\* kind, and the first of them.
Matches(a, ref) ==
    {i \in 1..Len(a.templates) :
        /\ a.templates[i].name = ref
        /\ StrOf(Field(a.templates[i].body, "kind")) = deploymentKind}

FirstMatch(a, ref) == CHOOSE i \in Matches(a, ref) : \A j \in Matches(a, ref) : i <= j

\* C18: the accessor succeeds only on a KubernetesApplication with a template
\* that has the name of the trait's workload reference and embeds a
\* Deployment; it replaces the embedded object of the first such template
\* with the modified Deployment (of the same name, with the trait's replica
\* count) and leaves the other templates, the number and order of the
\* templates, all names and labels, and the rest of the object as they were.
C18_OnlyTheMatchReplaced ==
    (Modified /\ call.result.err = "") =>
        LET a == call.obj
            p == call.result.pack
        IN  /\ IsKubeApp(a)
            /\ Matches(a, tr.workloadRef) # {}
            /\ [p EXCEPT !.templates = <<>>] = [a EXCEPT !.templates = <<>>]
            /\ Len(p.templates) = Len(a.templates)
            /\ \A j \in 1..Len(a.templates) :
                  /\ p.templates[j].name = a.templates[j].name
                  /\ p.templates[j].labels = a.templates[j].labels
                  /\ j # FirstMatch(a, tr.workloadRef) => p.templates[j] = a.templates[j]
            /\ LET was == a.templates[FirstMatch(a, tr.workloadRef)].body
                   now == p.templates[FirstMatch(a, tr.workloadRef)].body
               IN  /\ StrOf(Field(now, "kind")) = deploymentKind
                   /\ Field(Field(now, "metadata"), "name") = Field(Field(was, "metadata"), "name")
                   /\ Field(Field(now, "spec"), "replicas") = Num(tr.replicaCount)

\* The accessor has passed over a Service with the name of the workload
\* reference and modified the Deployment of that name that follows it.
C18_Witness ==
    /\ Modified
    /\ call.result.err = ""
    /\ Len(call.obj.templates) = 2
    /\ call.obj.templates[1].name = tr.workloadRef
    /\ StrOf(Field(call.obj.templates[1].body, "kind")) = serviceKind
    /\ FirstMatch(call.obj, tr.workloadRef) = 2
    /\ call.result.pack.templates[1] = call.obj.templates[1]
    /\ call.result.pack.templates[2] # call.obj.templates[2]

\* C19: an accessor that returns an error leaves the object it was given as
\* it was.  It returns the not-a-KubernetesApplication error for an object
\* that is none and the no-Deployment error for a KubernetesApplication
\* without a matching template, in both cases without invoking the modifier;
\* when the modifier fails it returns the modifier's error.
C19_ErrorLeavesCarrier ==
    Modified =>
        LET a == call.obj
            r == call.result
        IN  /\ r.err # "" => r.pack = a
            /\ ~IsKubeApp(a) => r.err = errAccessorNotKubeApp /\ ~r.invoked
            /\ (IsKubeApp(a) /\ Matches(a, tr.workloadRef) = {}) =>
                   r.err = errNoDeploymentForTrait /\ ~r.invoked
            /\ (r.invoked /\ tr.kind # manualScalerKind) => r.err = errNotManualScalerTrait

\* The modifier was invoked on the Deployment of a KubernetesApplication of
\* two templates and failed on a trait that is no ManualScalerTrait.
C19_Witness ==
    /\ Modified
    /\ call.result.invoked
    /\ call.result.err = errNotManualScalerTrait
    /\ Len(call.obj.templates) = 2
    /\ call.result.pack = call.obj


(***************************************************************************)
(* Properties of the trait reconciler, under SpecTrait.  No reconcile of   *)
(* the trait ever applies a KubernetesApplication in which the accessor    *)
(* finds no Deployment, so such an object stays as it is and an error in   *)
(* the trait's status comes from the accessor's failure.                   *)
(***************************************************************************)
\* C20: while the KubernetesApplication of the referenced workload exists but
\* has no template that the accessor accepts, a reconcile of the trait waits
\* for it: it does not set the condition of the trait's status to an error.
C20_WaitsWithoutError ==
    (kapp # NotFound /\ Matches(kapp, tr.workloadRef) = {}) => tr.status # "ReconcileError"

(***************************************************************************)
(* Properties of whole attempts, under SpecAttempt.  After an attempt,     *)
(* call.faults are the errors its calls ran into, call.before the status   *)
(* and the KubernetesApplication it found, call.result what it returned    *)
(* and call.calls the stages it went through.                              *)
(***************************************************************************)
Ended(who) == call.pc = "done" /\ call.reconciler = who

Called(stage) == \E i \in 1..Len(call.calls) : call.calls[i] = stage

Fetched == call.faults.get = ""
Persisted == call.faults.update = ""

\* What the modifier does to the package the trait's attempt found, and what
\* the apply of the modified package does.
Modification == DeploymentFromKubeAppAccessor(call.before.store, tr)

Application ==
    StoreWrite(call.before.store,
               ApplyPlan(TraitApplicator, call.before.store, Modification.pack, TRUE), FALSE)

\* The stages of the trait's attempt: the package is fetched, it is
\* modified, it is applied.
CarrierFetched == Fetched /\ call.faults.getPackage = "" /\ call.before.store # NotFound
CarrierModified == CarrierFetched /\ Modification.err = ""
CarrierApplied == CarrierModified /\ Application.err = ""

\* C21: after an attempt of the trait reconciler in which the fetch of the
\* trait, the fetch of the package, Modify and Apply all succeed, the status
\* the attempt persists is ReconcileSuccess, whatever it was before, and the
\* attempt asks for a requeue after the long wait.
C21_SuccessIsReady ==
    (Ended("trait") /\ CarrierApplied /\ Persisted)
        => (tr.status = ReconcileSuccess /\ call.result.requeueAfter = longWait)

\* C22: when the package named by the trait's workload reference is not
\* found, the attempt of the trait sets the status to ReconcileSuccess, asks
\* for a requeue after the short wait, and invokes neither Modify nor Apply:
\* no package is created.
CarrierMissing ==
    Ended("trait") /\ Fetched /\ call.faults.getPackage = "" /\ call.before.store = NotFound

C22_WaitsForCarrier ==
    CarrierMissing =>
        /\ Persisted => tr.status = ReconcileSuccess
        /\ ~Persisted => tr.status = call.before.status
        /\ call.result.requeueAfter = shortWait
        /\ ~Called("Modify") /\ ~Called("Apply")
        /\ kapp = NotFound

\* The trait held an error from an earlier attempt, and the wait cleared it.
C22_Witness ==
    /\ CarrierMissing /\ Persisted
    /\ call.before.status.reason = "ReconcileError"
    /\ tr.status = ReconcileSuccess

\* C23: in an attempt of the trait, a failure of the fetch of the package
\* other than not found, of Modify or of Apply sets the status to
\* ReconcileError with the message of the stage wrapped around the error and
\* asks for a requeue after the short wait; after a failure of the fetch or
\* of Modify no Apply is issued and the stored package is as it was.
TraitFailure ==
    IF ~Fetched THEN [stage |-> "", err |-> ""]
    ELSE IF call.faults.getPackage # ""
         THEN [stage |-> errGetPackage, err |-> call.faults.getPackage]
    ELSE IF call.before.store = NotFound THEN [stage |-> "", err |-> ""]
    ELSE IF Modification.err # "" THEN [stage |-> errTraitModify, err |-> Modification.err]
    ELSE IF Application.err # ""
         THEN [stage |-> errApplyTraitModification, err |-> Application.err]
    ELSE [stage |-> "", err |-> ""]

C23_TraitFailureIsError ==
    (Ended("trait") /\ TraitFailure.err # "") =>
        /\ Persisted =>
              tr.status = ReconcileError(TraitFailure.stage \o ": " \o TraitFailure.err)
        /\ call.result.requeueAfter = shortWait
        /\ TraitFailure.stage # errApplyTraitModification =>
              (~Called("Apply") /\ kapp = call.before.store)

\* Modify found no Deployment in a package that holds templates.
C23_Witness ==
    /\ Ended("trait") /\ Persisted
    /\ TraitFailure.stage = errTraitModify
    /\ call.before.store.templates # <<>>
    /\ tr.status.message = errTraitModify \o ": " \o errNoDeploymentForTrait
    /\ kapp = call.before.store

\* The apply loop of the workload's attempt on the objects translated, and
\* the first object whose apply fails (0 when none does).
Translated == call.faults.translated.objs.items

AppliedUpTo(n) == ApplyAllFrom(applicator, call.before.store, SubSeq(Translated, 1, n), 1)

FirstFailing ==
    IF \E n \in 1..Len(Translated) : AppliedUpTo(n).err # ""
    THEN CHOOSE n \in 1..Len(Translated) :
            AppliedUpTo(n).err # "" /\ \A m \in 1..(n - 1) : AppliedUpTo(m).err = ""
    ELSE 0

TranslateFailed == Fetched /\ call.faults.translated.err # ""
ApplyFailed == Fetched /\ ~TranslateFailed /\ FirstFailing # 0
AllApplied == Fetched /\ ~TranslateFailed /\ FirstFailing = 0

\* C24: an attempt of the workload in which the fetch, the translation and
\* every Apply succeed sets the status to ReconcileSuccess and asks for a
\* requeue after the long wait; an attempt in which the translation or an
\* Apply failed never sets ReconcileSuccess.
C24_ReadyOnlyOnSuccess ==
    Ended("workload") =>
        /\ AllApplied =>
              /\ Persisted => wl.status = ReconcileSuccess
              /\ call.result.requeueAfter = longWait
        /\ (TranslateFailed \/ ApplyFailed) =>
              /\ Persisted => wl.status # ReconcileSuccess
              /\ ~Persisted => wl.status = call.before.status
              /\ call.result.requeueAfter # longWait

\* Two objects were applied, and the workload's earlier error was cleared.
C24_Witness ==
    /\ Ended("workload") /\ AllApplied /\ Persisted
    /\ Len(Translated) = 2
    /\ call.before.status.reason = "ReconcileError"
    /\ wl.status = ReconcileSuccess
    /\ kapp # call.before.store

\* C25: in an attempt of the workload, a failure of the translation or of
\* an Apply sets the status to ReconcileError with the message of the stage
\* wrapped around the error and asks for a requeue after the short wait;
\* after a failure of the translation Apply is not invoked, and after the
\* first Apply that fails no further object is applied.
Applies == Cardinality({i \in 1..Len(call.calls) : call.calls[i] = "Apply"})

C25_WorkloadFailureIsError ==
    Ended("workload") =>
        /\ TranslateFailed =>
              /\ Persisted => wl.status = ReconcileError(errTranslateWorkload \o ": "
                                                          \o call.faults.translated.err)
              /\ call.result.requeueAfter = shortWait
              /\ Applies = 0
              /\ kapp = call.before.store
        /\ ApplyFailed =>
              /\ Persisted => wl.status = ReconcileError(errApplyWorkloadTranslation \o ": "
                                                          \o AppliedUpTo(FirstFailing).err)
              /\ call.result.requeueAfter = shortWait
              /\ Applies = FirstFailing
              /\ kapp = AppliedUpTo(FirstFailing - 1).store

\* The first of two objects failed, and the second, whose apply on its own
\* would have changed the stored KubernetesApplication, was not applied.
C25_Witness ==
    /\ Ended("workload") /\ ApplyFailed /\ Persisted
    /\ Len(Translated) = 2 /\ FirstFailing = 1
    /\ LET alone == ApplyAllFrom(applicator, call.before.store, <<Translated[2]>>, 1)
       IN  alone.err = "" /\ alone.store # call.before.store
    /\ kapp = call.before.store
    /\ wl.status.reason = "ReconcileError"

\* C26: in both reconcilers, when the first fetch (of the workload, of the
\* trait) fails with not found, the attempt returns no error and no requeue
\* delay, updates no status and writes nothing else.
C26_NotFoundEndsCleanly ==
    (call.pc = "done" /\ call.faults.get = errNotFound) =>
        /\ call.result = Result(0, "")
        /\ call.calls = <<"Get">>
        /\ wl.status = (IF call.reconciler = "workload" THEN call.before.status ELSE NoCondition)
        /\ tr.status = (IF call.reconciler = "trait" THEN call.before.status ELSE NoCondition)
        /\ kapp = call.before.store

\* The trait was not found while a KubernetesApplication it could have
\* modified was stored.
C26_Witness ==
    /\ Ended("trait") /\ call.faults.get = errNotFound
    /\ kapp # NotFound /\ DeploymentFromKubeAppAccessor(kapp, tr).err = ""
    /\ call.result = Result(0, "")

\* C27: when the first fetch of the workload's attempt fails with an error
\* other than not found, the attempt returns the error and a requeue delay
\* of the short wait.
C27_FetchErrorRequeuesShortly ==
    (Ended("workload") /\ ~Fetched /\ call.faults.get # errNotFound) =>
        (call.result.err # "" /\ call.result.requeueAfter = shortWait)

\* C28: in both reconcilers an attempt returns an error to the scheduler
\* only if its status update failed; every other failure is reported through
\* the status and the requeue delay alone.
C28_OnlyUpdateErrorsReturned ==
    (call.pc = "done" /\ call.result.err # "") => (Called("StatusUpdate") /\ ~Persisted)

(***************************************************************************)
(* Properties of the modifier of the ManualScalerTrait, under SpecModify.  *)
(* call.obj is the object the modifier was given and call.result.obj the   *)
(* object as the modifier left it.                                         *)
(***************************************************************************)
Scaled == call.pc = "scaled"

\* C29: the modifier sets the replica count of the Deployment it is given to
\* the replica count the trait declares and changes no other field of it;
\* given an object that is not a Deployment it fails with errNotDeployment
\* and leaves the object as it was.
C29_OnlyReplicasSet ==
    Scaled =>
        IF IsDeployment(call.obj)
        THEN tr.kind = manualScalerKind =>
                /\ call.result.err = ""
                /\ call.result.obj.replicas = Num(tr.replicaCount)
                /\ \A k \in (DOMAIN call.obj) \ {"replicas"} : call.result.obj[k] = call.obj[k]
                /\ DOMAIN call.result.obj = DOMAIN call.obj
        ELSE /\ call.result.err = errNotDeployment
             /\ call.result.obj = call.obj

\* A Deployment of two containers with another replica count was scaled.
C29_Witness ==
    /\ Scaled /\ IsDeployment(call.obj) /\ call.result.err = ""
    /\ Len(call.obj.containers) = 2
    /\ ~IsNull(call.obj.replicas) /\ call.obj.replicas # call.result.obj.replicas

(***************************************************************************)
(* Properties of repeated translations, under SpecTwice.  Bodies are JSON  *)
(* values: two equal values marshal to the same bytes, the encoder writing *)
(* the keys of an object in sorted order.                                  *)
(***************************************************************************)
TranslatedAgain == call.run = 2 /\ call.pc \in {"apply", "done"}

UnrecognisedKind ==
    /\ ~IsContainerizedWorkload(wl)
    /\ call.translated = containerizedWorkloadTranslator(wl)

\* C31: the translate function called with a workload of a kind it does not
\* recognise returns its type error and no objects, and the step of the
\* attempt that applies leaves the stored KubernetesApplication as it was.
C31_UnrecognisedKindAppliesNothing ==
    [][(UnrecognisedKind /\ call.pc = "apply")
          => /\ call.err = errNotContainerizedWorkload
             /\ call.objs.nil
             /\ call.translated.objs.nil
             /\ kapp' = kapp
             /\ created' = FALSE]_vars

\* An attempt for a workload of an unrecognised kind is over, with the type
\* error, while a KubernetesApplication is stored under the workload's name.
C31_Witness ==
    /\ UnrecognisedKind /\ call.pc = "done"
    /\ call.err = errNotContainerizedWorkload
    /\ kapp # NotFound
    /\ wl.status = Condition(errNotContainerizedWorkload)

\* An apply call with a client that may fail has returned.
Returned == call.pc = "done" /\ "faults" \in DOMAIN call

\* What the Get of the call returned: the object stored before the call.
GotNotFound == call.faults.get = "" /\ call.before = NotFound
GotError == call.faults.get # ""
GotObject == call.faults.get = "" /\ call.before # NotFound

\* The controller check and the template merge of the call passed.
ChecksPassed ==
    /\ call.must => HaveSameController(call.before, call.desired)
    /\ MergeTemplates(applicator, call.before, call.desired).err = ""

Writes == SelectSeq(call.calls, LAMBDA c : c # "Get")

TraitApplyStep == t.pc = "write" /\ t'.pc = "idle"

\* The templates of the stored KubernetesApplication a reconcile of the
\* trait does not target: all but the first Deployment template that has
\* the name of the trait's workload reference.
Untargeted ==
    IF kapp = NotFound THEN {}
    ELSE {i \in 1..Len(kapp.templates) :
             Matches(kapp, tr.workloadRef) = {} \/ i # FirstMatch(kapp, tr.workloadRef)}

\* C33: the apply of a reconcile of the trait leaves every template it
\* does not target stored and as it was right before the apply, also when
\* reconciles of the workload wrote the KubernetesApplication after the
\* trait's reconcile had fetched it.
C33_OtherTemplatesKept ==
    [][TraitApplyStep =>
          /\ kapp' # NotFound
          /\ \A i \in Untargeted :
                 i <= Len(kapp'.templates) /\ kapp'.templates[i] = kapp.templates[i]]_vars

\* A reconcile of the trait has patched a KubernetesApplication that holds
\* a Service template besides the scaled Deployment, after a reconcile of
\* the workload had ended.
C33_Witness ==
    /\ last.caller = "trait" /\ last.op = "patch" /\ last.err = ""
    /\ t.pc = "idle" /\ wl.status # ""
    /\ kapp # NotFound
    /\ Matches(kapp, tr.workloadRef) # {}
    /\ StoredReplicas(kapp) = Num(tr.replicaCount)
    /\ \E i \in 1..Len(kapp.templates) :
           StrOf(Field(kapp.templates[i].body, "kind")) = serviceKind

\* The stored KubernetesApplication holds a Deployment template with the
\* trait's replica count and the trait's status is not the error one.
Scaled_AsAsked ==
    /\ kapp # NotFound
    /\ StoredReplicas(kapp) = Num(tr.replicaCount)
    /\ tr.status # Condition(errBoom)

\* C34: with a workload and a trait that stay as they are and reconcilers
\* that are invoked again after every requeue, the stored
\* KubernetesApplication in the end holds a Deployment template with the
\* trait's replica count while the trait's status is not the error one, and
\* this stays so from then on.
C34_EventuallyScaled == <>[]Scaled_AsAsked

\* The step is the apply of a reconcile of the workload that follows a
\* successful reconcile of the same workload, no one else having written
\* the KubernetesApplication since that reconcile's write.
SecondApplyStep ==
    /\ w.pc = "write" /\ w'.pc = "idle"
    /\ last.caller = "workload" /\ last.err = "" /\ last.op \in {"create", "patch"}
    /\ w.current = kapp
    /\ w.desired = Translate(pipeline, wl)

\* C35: a reconcile of an unchanged workload that follows a successful one,
\* with no other writer in between, leaves the stored KubernetesApplication
\* as the first left it: the same templates with the same embedded objects.
C35_SecondReconcileKeepsStore ==
    [][SecondApplyStep => kapp' = kapp]_vars

\* The KubernetesApplication k without the keys of its embedded objects
\* that hold null.
WithoutNulls(k) ==
    IF k = NotFound THEN k
    ELSE [k EXCEPT !.templates =
            [i \in 1..Len(k.templates) |->
                [k.templates[i] EXCEPT !.body = PruneNulls(k.templates[i].body)]]]

\* C35, amended: a reconcile of an unchanged workload that follows a
\* successful one, with no other writer in between, leaves the stored
\* KubernetesApplication as the first left it, but for the keys of the
\* embedded objects that held null, which it removes.
C35_SecondReconcileKeepsStoreButNulls ==
    [][SecondApplyStep => WithoutNulls(kapp') = WithoutNulls(kapp)]_vars

\* The workload was reconciled twice, the first reconcile created the
\* KubernetesApplication and the second patched it; the trait's reconciler
\* has not scaled it.
C35_Witness ==
    /\ created /\ w.pc = "idle" /\ t.pc = "idle"
    /\ last.caller = "workload" /\ last.op = "patch" /\ last.err = ""
    /\ wl.status = Condition("")
    /\ tr.status = ""
    /\ StoredReplicas(kapp) = Null

\* The call ran the template merge of KubeAppApplyOption: its Get returned
\* the stored object and the controller check passed.
OptionRan ==
    /\ Returned /\ GotObject
    /\ applicator = "KubeAppApplyOption"
    /\ call.must => HaveSameController(call.before, call.desired)

\* The desired templates with an identity match among the stored ones.
Matched ==
    {i \in 1..Len(call.desired.templates) :
        \E j \in 1..Len(call.before.templates) :
            template(call.before.templates[j]) = template(call.desired.templates[i])}

\* C36: the template merge leaves the desired KubernetesApplication with
\* as many templates, in the same order, each with its name, its labels and
\* its identity; a desired template with no identity match among the
\* stored ones is as it was, and so is every field of the object other
\* than the templates.  The merge itself writes nothing to the store: when
\* no Patch follows it, the stored object is as the Get found it.
C36_MergeFrame ==
    OptionRan =>
        /\ Len(call.doc.templates) = Len(call.desired.templates)
        /\ \A i \in 1..Len(call.desired.templates) :
               /\ call.doc.templates[i].name = call.desired.templates[i].name
               /\ call.doc.templates[i].labels = call.desired.templates[i].labels
               /\ template(call.doc.templates[i]) = template(call.desired.templates[i])
               /\ i \notin Matched => call.doc.templates[i] = call.desired.templates[i]
        /\ [call.doc EXCEPT !.templates = call.desired.templates] = call.desired
        /\ call.calls = <<"Get">> => kapp = call.before

\* The merge changed the embedded object of one of two desired templates,
\* the other had no match, and a stored template had no match either.
C36_Witness ==
    /\ OptionRan /\ call.err = ""
    /\ Len(call.desired.templates) = 2 /\ Len(call.before.templates) = 2
    /\ Cardinality(Matched) = 1
    /\ \E i \in Matched : call.doc.templates[i].body # call.desired.templates[i].body
    /\ \E j \in 1..2 : IndexOf(call.desired.templates, template(call.before.templates[j])) = 0

\* In the merge m of the stored object s and the desired object d, object
\* by object: a key d holds as null is absent from m, whatever s holds for
\* it; a key d does not have has the value s holds; a key d holds as a
\* number, a string or an array has the value d holds.
RECURSIVE NullsDelete(_, _, _)
NullsDelete(m, s, d) ==
    /\ \A k \in DOMAIN d.o :
          IF IsNull(d.o[k]) THEN ~Has(m, k)
          ELSE /\ Has(m, k)
               /\ IF IsObj(d.o[k])
                  THEN Has(s, k) /\ IsObj(s.o[k]) => NullsDelete(m.o[k], s.o[k], d.o[k])
                  ELSE m.o[k] = PruneNulls(d.o[k])
    /\ \A k \in (DOMAIN s.o) \ (DOMAIN d.o) : Has(m, k) /\ m.o[k] = s.o[k]

\* C37: in the merge of a matched pair of templates, a key the desired
\* embedded object holds as null is absent from the merged object even when
\* the stored object holds a value for it, and the keys that keep their
\* stored value are those the desired object omits.
C37_NullDeletesStoredValue ==
    PatchedOk => NullsDelete(MergedSpec, StoredSpec, DesiredSpec)

\* The stored object held a replica count and ports, the desired one held
\* replicas as null and no ports: the merged object has the ports and no
\* replicas.
C37_Witness ==
    /\ PatchedOk
    /\ Field(Field(StoredSpec, "spec"), "replicas") = Num(MaxReplicas)
    /\ Has(Field(DesiredSpec, "spec"), "replicas")
    /\ IsNull(Field(Field(DesiredSpec, "spec"), "replicas"))
    /\ Has(Field(StoredSpec, "spec"), "ports")
    /\ ~Has(Field(DesiredSpec, "spec"), "ports")
    /\ ~Has(Field(MergedSpec, "spec"), "replicas")
    /\ Field(Field(MergedSpec, "spec"), "ports") = Field(Field(StoredSpec, "spec"), "ports")

\* The attempt went through every stage: for the workload the translation
\* and every Apply, for the trait the package, Modify and Apply.
AttemptSucceeded ==
    IF call.reconciler = "workload" THEN AllApplied ELSE CarrierApplied

StatusUpdates == {i \in 1..Len(call.calls) : call.calls[i] = "StatusUpdate"}

\* C38: an attempt of either reconciler that got past its first fetch
\* issues one status update, on every branch, as its last store operation,
\* and asks for a requeue after the long wait when it succeeded and after
\* the short wait on every other branch, whatever status earlier attempts
\* had left.
C38_OneStatusUpdateLast ==
    (call.pc = "done" /\ Fetched) =>
        /\ StatusUpdates = {Len(call.calls)}
        /\ call.result.requeueAfter = IF AttemptSucceeded THEN longWait ELSE shortWait

\* An attempt of the workload whose Apply failed, after an attempt that had
\* left an error status: the status update follows the Apply and the
\* requeue is asked after the short wait.
C38_Witness ==
    /\ Ended("workload") /\ ApplyFailed
    /\ call.before.status = ReconcileError(ErrorsWrap(errBoom, errTranslateWorkload))
    /\ call.calls = <<"Get", "Translate", "Apply", "StatusUpdate">>
    /\ call.result.requeueAfter = shortWait

\* The stored templates that have a match among the desired ones, and
\* those of them whose merge fails: the merged object has no kind.
Pairs ==
    {j \in 1..Len(call.before.templates) :
        IndexOf(call.desired.templates, template(call.before.templates[j])) # 0}

FailingPairs == {j \in Pairs : template(call.before.templates[j]).gvk.kind = ""}

\* C39: when the merge of a matched pair of templates fails, the apply
\* returns the merge error and issues no Patch: the stored
\* KubernetesApplication is as the Get found it, also when pairs before the
\* failing one were merged.
C39_FailedMergeWritesNothing ==
    (OptionRan /\ FailingPairs # {}) =>
        /\ call.err = errMergeKubeAppTemplates
        /\ call.calls = <<"Get">>
        /\ kapp = call.before

\* The merge of the second pair failed after the first pair had been
\* merged into the desired object.
C39_Witness ==
    /\ OptionRan /\ FailingPairs = {2} /\ Pairs = {1, 2}
    /\ call.err = errMergeKubeAppTemplates
    /\ call.doc.templates # call.desired.templates
    /\ call.faults.patch = ""

=============================================================================
